---- MODULE Spec2Model ----
\* task_sequencer: DependencyValidator.validate and TaskOrchestrator.execute
\* over a TaskRegistry and a MemoryProgressTracker-like progress store.
EXTENDS Integers, Sequences, FiniteSets, TLC

VARIABLES
    registry,        \* TaskRegistry._tasks: name -> depends_on list
    task_order,      \* the caller's task_order argument
    pc,              \* position of the call in progress
    raised,          \* the exception that left the call, or NoError
    idx,             \* position in task_order of the loop's current task (0 before the loop)
    completed_tasks, \* execute's local list completed_tasks
    completed_set,   \* execute's local set completed_set
    results,         \* execute's local dict results: name -> TaskResult
    results_keys,    \* insertion order of the keys of results
    ctx_results,     \* context.results
    pending,         \* what the task invocation produced, not yet recorded
    store,           \* the progress store: name -> TaskProgress or NoProgress
    clock,           \* datetime.now(), as a logical clock
    ret,             \* the ExecutionResult returned, or NoResult
    executed,        \* history: positions whose task code was invoked, in order
    store_log,       \* history: the writes the store accepted, in order
    task_exc,        \* history: the message of the exception task code raised
    store_fault,     \* history: a store call raised ProgressError
    resume,          \* execute's resume argument
    items,           \* the list an item-iterating task's get_items returns
    save_interval,   \* ResumeIterator.save_interval
    it_start,        \* ResumeIterator._start_index (NoIndex: no ResumeIterator)
    it_cur,          \* ResumeIterator._current_index, or the position of a plain iterator
    yielded,         \* history: positions in items yielded in the current pass
    passes,          \* history: the earlier passes over one ResumeIterator
    ckpts,           \* history: per run, the last position a ResumeIterator checkpointed
    entry_store,     \* history: the store as the current run found it
    lim_limit,       \* LimitingIterator.limit
    lim_count,       \* LimitingIterator._count
    src_len,         \* length of the source the LimitingIterator wraps (Unbounded: a generator)
    src_pos,         \* number of items the source iterator has handed out
    lim_stops,       \* history: StopIteration signals of the LimitingIterator in this pass
    parameters,      \* what get_parameters returns
    error_strategy,  \* ParameterizedIterableTask.error_strategy
    max_retries,     \* ParameterizedIterableTask.max_retries
    overrides,       \* the task overrides on_error
    p_idx,           \* position in parameters of the for loop's current parameter
    retries,         \* execute's local retries
    success,         \* execute's local success
    param_error,     \* execute's local param_error, or NoParamError
    errors,          \* execute's local list errors
    processed,       \* execute's local counter processed
    attempts,        \* history: the calls of execute_for_parameter and what followed
    p_ret,           \* the TaskResult returned by ParameterizedIterableTask.execute
    reg_order,       \* insertion order of the keys of TaskRegistry._tasks
    reg_calls,       \* history: the tasks register was called with, in order
    reg_out,         \* what the last call on the registry returned
    handled,         \* history: positions in items execute_for_item has returned for
    mode,            \* execute's mode argument
    behaviour,       \* what the task code and the store do when called
    first            \* history: the outcome of the first of two runs that differ in mode

callVars == <<registry, task_order, pc, raised>>
runVars == <<idx, completed_tasks, completed_set, results, results_keys, ctx_results,
             pending, store, clock, ret, executed, store_log, task_exc, store_fault>>
iterVars == <<resume, items, save_interval, it_start, it_cur, yielded, passes, ckpts,
              entry_store>>
limVars == <<lim_limit, lim_count, src_len, src_pos, lim_stops>>
paramVars == <<parameters, error_strategy, max_retries, overrides, p_idx, retries, success,
               param_error, errors, processed, attempts, p_ret>>
regVars == <<reg_order, reg_calls, reg_out>>
modeVars == <<mode, behaviour, first>>
extVars == <<regVars, handled, modeVars>>
auxVars == <<limVars, paramVars, extVars>>
vars == <<callVars, runVars, iterVars, auxVars>>

\* ---------------------------------------------------------------- bounds
MaxOrderLen == 3        \* longest task_order given to validate
MaxRunLen == 4          \* longest task_order given to execute
MaxItems == 3           \* longest item list of an item-iterating task
MaxInterval == 2        \* largest save_interval of a ResumeIterator
MaxPasses == 2          \* passes made over one ResumeIterator
MaxRuns == 2            \* calls of execute in one run lineage
MaxLimit == 3           \* largest limit of a LimitingIterator
MaxSource == 4          \* longest bounded source a LimitingIterator wraps
MaxStops == 2           \* next() calls answered by StopIteration that are followed in one pass
MaxParams == 2          \* longest parameter list of a ParameterizedIterableTask
MaxRetries == 2         \* largest max_retries of a ParameterizedIterableTask

\* ---------------------------------------------------------------- names
Tasks == {"A", "B", "C"}          \* names registered in the registry
Unregistered == "X"               \* a name no task is registered under
Names == Tasks \cup {Unregistered}

None == "None"

Range(s) == {s[k] : k \in 1..Len(s)}

NoRepeat(s) == \A a, b \in 1..Len(s) : a # b => s[a] # s[b]

\* depends_on lists: duplicate-free lists of registered names
DepLists == {s \in UNION {[1..n -> Tasks] : n \in 0..Cardinality(Tasks)} : NoRepeat(s)}

Registries == [Tasks -> DepLists]

Orders == UNION {[1..n -> Names] : n \in 0..MaxOrderLen}

\* the registries and orders of the runs of execute: depends_on lists in
\* registration order (A, B, C)
RegistrationOrder == <<"A", "B", "C">>

Sorted(s) == \A a, b \in 1..Len(s) :
                a < b => \E i, j \in 1..Len(RegistrationOrder) :
                            i < j /\ RegistrationOrder[i] = s[a] /\ RegistrationOrder[j] = s[b]

RunRegistries == [Tasks -> {s \in DepLists : Sorted(s)}]

RunOrders == UNION {[1..n -> Names] : n \in 0..MaxRunLen}

\* ---------------------------------------------------------------- errors
NoError == [type |-> "NoError", kind |-> "none", task |-> None, names |-> <<>>]

DependencyError(kind, task, names) ==
    [type |-> "DependencyError", kind |-> kind, task |-> task, names |-> names]

\* ---------------------------------------------------------------- registry
RegistryContains(reg, name) == name \in DOMAIN reg

DependsOn(reg, name) == reg[name]

\* ---------------------------------------------------------------- validator
\* [x for x in s if x in keep]
FilterSeq(s, keep) == SelectSeq(s, LAMBDA x : x \in keep)

CheckAllTasksExist(order, reg) ==
    LET missing_tasks == SelectSeq(order, LAMBDA t : ~RegistryContains(reg, t))
    IN  IF missing_tasks # <<>>
        THEN DependencyError("not_found", None, missing_tasks)
        ELSE NoError

\* graph[task_name] = [dep for dep in task.depends_on if dep in task_order]
BuildGraph(order, reg) ==
    [t \in Range(order) |-> FilterSeq(DependsOn(reg, t), Range(order))]

\* path.index(x): the first position of x
IndexOf(s, x) == CHOOSE k \in 1..Len(s) : s[k] = x /\ \A j \in 1..(k - 1) : s[j] # x

\* a cycle report that keeps the whole DFS path instead of the part from neighbor on
CyclePathWholePath(path, neighbor) == Append(path, neighbor)

\* cycle = path[path.index(neighbor):] + [neighbor]
CyclePath(path, neighbor) ==
    Append(SubSeq(path, IndexOf(path, neighbor), Len(path)), neighbor)

RECURSIVE HasCycle(_, _, _), HasCycleNeighbors(_, _, _, _)

\* has_cycle(node, path): st = [visited, rec_stack, path, cycle]; cycle is
\* the raised cycle (<<>> while nothing was raised)
HasCycle(graph, node, st) ==
    HasCycleNeighbors(graph, node, 1,
        [visited   |-> st.visited \cup {node},
         rec_stack |-> st.rec_stack \cup {node},
         path      |-> Append(st.path, node),
         cycle     |-> st.cycle])

HasCycleNeighbors(graph, node, k, st) ==
    IF k > Len(graph[node])
    THEN [st EXCEPT !.rec_stack = st.rec_stack \ {node},
                    !.path = SubSeq(st.path, 1, Len(st.path) - 1)]
    ELSE LET neighbor == graph[node][k] IN
         IF neighbor \notin st.visited
         THEN LET st2 == HasCycle(graph, neighbor, st) IN
              IF st2.cycle # <<>> THEN st2
              ELSE HasCycleNeighbors(graph, node, k + 1, st2)
         ELSE IF neighbor \in st.rec_stack
         THEN [st EXCEPT !.cycle = CyclePath(st.path, neighbor)]
         ELSE HasCycleNeighbors(graph, node, k + 1, st)

RECURSIVE CyclicScan(_, _, _, _)

\* for task_name in task_order: if task_name not in visited: has_cycle(task_name)
CyclicScan(graph, order, k, st) ==
    IF k > Len(order) \/ st.cycle # <<>> THEN st
    ELSE IF order[k] \in st.visited THEN CyclicScan(graph, order, k + 1, st)
    ELSE CyclicScan(graph, order, k + 1, HasCycle(graph, order[k], st))

CheckCyclicDependencies(order, reg) ==
    LET st == CyclicScan(BuildGraph(order, reg), order, 1,
                  [visited |-> {}, rec_stack |-> {}, path |-> <<>>, cycle |-> <<>>])
    IN  IF st.cycle # <<>>
        THEN DependencyError("cyclic", None, st.cycle)
        ELSE NoError

\* task_positions = {task_name: i for i, task_name in enumerate(task_order)}:
\* a repeated name keeps its last position
TaskPosition(order, name) ==
    CHOOSE k \in 1..Len(order) : order[k] = name /\ \A j \in (k + 1)..Len(order) : order[j] # name

\* a dependency check that cites only the first missing dependency of the task
CheckTaskDependenciesFirstMissing(order, reg, task_name) ==
    LET dependencies == DependsOn(reg, task_name)
        missing_deps == SelectSeq(dependencies, LAMBDA d : d \notin Range(order))
        invalid_order_deps ==
            SelectSeq(dependencies,
                LAMBDA d : TaskPosition(order, d) >= TaskPosition(order, task_name))
    IN  IF missing_deps # <<>>
        THEN DependencyError("not_in_order", task_name, <<missing_deps[1]>>)
        ELSE IF invalid_order_deps # <<>>
        THEN DependencyError("wrong_order", task_name, invalid_order_deps)
        ELSE NoError

\* a dependency check that asks only for the presence of the dependencies in the
\* order, not for their positions
CheckTaskDependenciesMissingOnly(order, reg, task_name) ==
    LET dependencies == DependsOn(reg, task_name)
        missing_deps == SelectSeq(dependencies, LAMBDA d : d \notin Range(order))
    IN  IF missing_deps # <<>>
        THEN DependencyError("not_in_order", task_name, missing_deps)
        ELSE NoError

\* one iteration of the loop of _check_dependencies_in_order
CheckTaskDependencies(order, reg, task_name) ==
    LET dependencies == DependsOn(reg, task_name)
        missing_deps == SelectSeq(dependencies, LAMBDA d : d \notin Range(order))
        invalid_order_deps ==
            SelectSeq(dependencies,
                LAMBDA d : TaskPosition(order, d) >= TaskPosition(order, task_name))
    IN  IF missing_deps # <<>>
        THEN DependencyError("not_in_order", task_name, missing_deps)
        ELSE IF invalid_order_deps # <<>>
        THEN DependencyError("wrong_order", task_name, invalid_order_deps)
        ELSE NoError

RECURSIVE InOrderScan(_, _, _)

InOrderScan(order, reg, k) ==
    IF k > Len(order) THEN NoError
    ELSE LET e == CheckTaskDependencies(order, reg, order[k]) IN
         IF e # NoError THEN e ELSE InOrderScan(order, reg, k + 1)

CheckDependenciesInOrder(order, reg) == InOrderScan(order, reg, 1)

\* a validate that runs the order check before the cycle check
ValidateOrderBeforeCycles(order, reg) ==
    LET e1 == CheckAllTasksExist(order, reg) IN
    IF e1 # NoError THEN e1
    ELSE LET e3 == CheckDependenciesInOrder(order, reg) IN
         IF e3 # NoError THEN e3
         ELSE CheckCyclicDependencies(order, reg)

\* validate: the three checks in sequence, the first error raised wins
Validate(order, reg) ==
    LET e1 == CheckAllTasksExist(order, reg) IN
    IF e1 # NoError THEN e1
    ELSE LET e2 == CheckCyclicDependencies(order, reg) IN
         IF e2 # NoError THEN e2
         ELSE CheckDependenciesInOrder(order, reg)

\* ---------------------------------------------------------------- data model
NoTime == -1                      \* a timestamp that is None
NoCount == -1                     \* total_items that is None
NoMessage == <<>>                 \* a message that is None

\* messages are lists of text pieces; an f-string is the list of its parts
Msgs == {"boom", "oops"}          \* texts of the exceptions and errors of task code
StoreFaultMsg == <<"store fault">>
UnknownError == <<"Unknown error">>

NoProgress == [status |-> "absent", started_at |-> NoTime, completed_at |-> NoTime,
               error_message |-> NoMessage, last_processed_id |-> None,
               processed_items |-> 0, total_items |-> NoCount]

\* TaskProgress(task_name, status, started_at, completed_at, error_message):
\* the dataclass defaults for the other fields
TaskProgress(status, started_at, completed_at, error_message) ==
    [status |-> status, started_at |-> started_at, completed_at |-> completed_at,
     error_message |-> error_message, last_processed_id |-> None,
     processed_items |-> 0, total_items |-> NoCount]

\* TaskResult(status, error)
TaskResult(status, error) == [status |-> status, error |-> error]

NoTaskResult == TaskResult("none", NoMessage)

\* TaskResult.success
Success(r) == r.status = "COMPLETED"

\* TaskMode = Literal["run", "dry-run", "resume"]
TaskModes == {"run", "dry-run", "resume"}

ContextMetadataByMode(m, r) == [resume |-> r \/ m = "resume"]

\* context.metadata as an IterableTask finds it: the "resume" key is set from
\* the resume argument alone (metadata.get("resume", False))
ContextMetadata(m, r) == [resume |-> r]

\* ExecutionResult.metadata
ResultMetadata(m, r) == [mode |-> m, resume |-> r]

NoResult == [status |-> "none", results |-> [n \in Names |-> NoTaskResult],
             results_keys |-> <<>>, completed_tasks |-> <<>>, failed_tasks |-> <<>>,
             metadata |-> [mode |-> "none", resume |-> FALSE]]

NoPending == [kind |-> "none", status |-> None, error |-> NoMessage]

ProgressError(task_name) ==
    [type |-> "ProgressError", kind |-> "store", task |-> task_name, names |-> <<>>]

\* tasks that are IterableTask instances (isinstance(task, IterableTask))
IterableTasks == {"B"}

\* the items of an item-iterating task: dicts with an "id" key
ItemIds == {"i1", "i2", "i3"}

Items == {[id |-> i] : i \in ItemIds}

ItemLists == UNION {[1..n -> Items] : n \in 0..MaxItems}

\* ResumeIterator.__init__: save_interval: int = 10
DefaultSaveInterval == 10

\* _start_index when the task iterates without a ResumeIterator
NoIndex == -1

\* ---------------------------------------------------------------- progress store
\* MemoryProgressTracker.save_progress
SaveProgress(st, task_name, progress) == [st EXCEPT ![task_name] = progress]

\* MemoryProgressTracker.get_progress
GetProgress(st, task_name) == st[task_name]

\* MemoryProgressTracker.mark_completed
MarkCompleted(st, task_name, now) ==
    IF st[task_name].status = "absent"
    THEN [st EXCEPT ![task_name] = TaskProgress("COMPLETED", now, now, NoMessage)]
    ELSE [st EXCEPT ![task_name] =
             [@ EXCEPT !.status = "COMPLETED",
                       !.completed_at = now,
                       !.started_at = IF @ = NoTime THEN now ELSE @]]

\* ---------------------------------------------------------------- orchestrator
\* _check_dependencies_satisfied
CheckDependenciesSatisfied(reg, task_name, completed) ==
    \A k \in 1..Len(DependsOn(reg, task_name)) : DependsOn(reg, task_name)[k] \in completed

\* a start rule that writes the start checkpoint whatever the store holds
NeedsStartAlways(existing_progress) == TRUE

\* a start rule that writes the start checkpoint only when the store holds none
NeedsStartOnlyAbsent(existing_progress) == existing_progress.status = "absent"

\* the start checkpoint is written unless an IN_PROGRESS one exists
NeedsStart(existing_progress) ==
    existing_progress.status = "absent" \/ existing_progress.status # "IN_PROGRESS"

\* _mark_task_started
MarkTaskStarted(st, task_name, now) ==
    SaveProgress(st, task_name, TaskProgress("IN_PROGRESS", now, NoTime, NoMessage))

\* a failure mark that is written to the record of every task
MarkTaskFailedAll(st, task_name, error_message, now) ==
    [n \in DOMAIN st |-> TaskProgress("FAILED", NoTime, now, error_message)]

\* _mark_task_failed
MarkTaskFailed(st, task_name, error_message, now) ==
    SaveProgress(st, task_name, TaskProgress("FAILED", NoTime, now, error_message))

\* what task.execute(context) may do: return a TaskResult or raise an exception
TaskOutcomes ==
    {[kind |-> "return", status |-> "COMPLETED", msg |-> NoMessage]}
    \cup {[kind |-> "return", status |-> "FAILED", msg |-> <<m>>] : m \in Msgs}
    \cup {[kind |-> "return", status |-> "FAILED", msg |-> NoMessage]}
    \cup {[kind |-> "return", status |-> "CANCELLED", msg |-> NoMessage]}
    \cup {[kind |-> "raise", status |-> None, msg |-> <<m>>] : m \in Msgs}

\* TaskExecutionError(f"Error executing task '{task.name}': {e}")
TaskExecutionErrorMsg(task_name, e) == <<"Error executing task", task_name>> \o e

\* a wrapping message that leaves out the text of the exception it wraps
IterableExecutionErrorMsgNoCause(task_name, e) ==
    <<"Error executing iterable task", task_name>>

\* TaskExecutionError(f"Error executing iterable task '{task.name}': {e}")
IterableExecutionErrorMsg(task_name, e) ==
    <<"Error executing iterable task", task_name>> \o e

PendingResult(status, error) == [kind |-> "result", status |-> status, error |-> error]

PendingError(msg) == [kind |-> "error", status |-> None, error |-> msg]

\* an emptiness test that lets every item list through to task.execute
NoItemsNever(total) == FALSE

\* _execute_iterable_task: if total == 0
NoItems(total) == total = 0

\* _execute_task: the task's result, or its exception wrapped in TaskExecutionError
ExecuteTaskOutcome(task_name, out) ==
    IF out.kind = "raise"
    THEN PendingError(TaskExecutionErrorMsg(task_name, out.msg))
    ELSE PendingResult(out.status, out.msg)

\* a results assignment that drops the entries recorded before it
PutResultOnly(res, task_name, result) ==
    [n \in Names |-> IF n = task_name THEN result ELSE NoTaskResult]

\* results[task_name] = result
PutResult(res, task_name, result) == [res EXCEPT ![task_name] = result]

\* a results key recorded once per assignment, repeated names included
PutKeyAlways(keys, task_name) == Append(keys, task_name)

\* the keys of results in insertion order
PutKey(keys, task_name) ==
    IF task_name \in Range(keys) THEN keys ELSE Append(keys, task_name)

\* a failed_tasks that lists every key of results
FailedTasksAllKeys(res, keys) == keys

\* failed_tasks = [name for name, result in results.items() if not result.success]
FailedTasks(res, keys) == SelectSeq(keys, LAMBDA n : ~Success(res[n]))

\* a final_status that asks whether every name of the order is among the completed
FinalStatusByNames(completed, order) ==
    IF Range(order) \subseteq Range(completed) THEN "COMPLETED" ELSE "FAILED"

\* final_status
FinalStatus(completed, order) ==
    IF Len(completed) = Len(order) THEN "COMPLETED" ELSE "FAILED"

CurrentTask == task_order[idx]

\* a source that never ends (a generator)
Unbounded == -1

\* param_error = None
NoParamError == <<>>

NoParamResult == [status |-> "none", error |-> NoMessage, errors |-> <<>>,
                  processed |-> 0, total |-> 0]

\* no LimitingIterator takes part
InitLim ==
    /\ lim_limit = 1
    /\ lim_count = 0
    /\ src_len = 0
    /\ src_pos = 0
    /\ lim_stops = 0

\* the locals of ParameterizedIterableTask.execute before the loop
InitParamLocals ==
    /\ p_idx = 0
    /\ retries = 0
    /\ success = FALSE
    /\ param_error = NoParamError
    /\ errors = <<>>
    /\ processed = 0
    /\ attempts = <<>>
    /\ p_ret = NoParamResult

\* no ParameterizedIterableTask takes part
InitNoParam ==
    /\ parameters = <<>>
    /\ error_strategy = "stop"
    /\ max_retries = 0
    /\ overrides = FALSE
    /\ InitParamLocals

\* no call on a TaskRegistry is followed
NoCall == [op |-> "none", name |-> "", value |-> <<>>]

InitNoRegistryCalls ==
    /\ reg_order = <<>>
    /\ reg_calls = <<>>
    /\ reg_out = NoCall

\* no behaviour is laid down for the task code: it may fail at every call
AnyBehaviour == [outcome |-> [kind |-> "return", status |-> "COMPLETED", msg |-> <<>>],
                 fail_at |-> 0]

\* no first run to compare with
NoFirst == [taken |-> FALSE, mode |-> "run", store |-> <<>>, store_log |-> <<>>,
            executed |-> <<>>, yielded |-> <<>>, passes |-> <<>>, ret |-> <<>>,
            raised |-> <<>>]

\* execute(task_order) is called with the default mode, once
InitOneMode ==
    /\ mode = "run"
    /\ behaviour = AnyBehaviour
    /\ first = NoFirst

InitExt == InitNoRegistryCalls /\ handled = {} /\ InitOneMode

InitAux == InitLim /\ InitNoParam /\ InitExt

\* execute's locals before the loop, and the histories
InitLocals ==
    /\ idx = 0
    /\ completed_tasks = <<>>
    /\ completed_set = {}
    /\ results = [n \in Names |-> NoTaskResult]
    /\ results_keys = <<>>
    /\ ctx_results = [n \in Names |-> NoTaskResult]
    /\ pending = NoPending
    /\ ret = NoResult
    /\ executed = <<>>
    /\ store_log = <<>>
    /\ task_exc = NoMessage
    /\ store_fault = FALSE

\* a run over an empty store
InitRun ==
    /\ InitLocals
    /\ store = [n \in Names |-> NoProgress]
    /\ clock = 0

\* no item-iterating task that uses a ResumeIterator takes part
InitIter ==
    /\ resume = FALSE
    /\ items = <<>>
    /\ save_interval = DefaultSaveInterval
    /\ it_start = NoIndex
    /\ it_cur = 0
    /\ yielded = <<>>
    /\ passes = <<>>
    /\ ckpts = <<0>>
    /\ entry_store = [n \in Names |-> NoProgress]

Init ==
    /\ registry \in RunRegistries
    /\ task_order \in RunOrders
    /\ pc = "validate"
    /\ raised = NoError
    /\ InitRun
    /\ InitIter
    /\ InitAux

\* execute: self._validate_dependencies(task_order), then the locals are set up
ValidateDependencies ==
    /\ pc = "validate"
    /\ raised' = Validate(task_order, registry)
    /\ pc' = IF raised' = NoError THEN "loop" ELSE "raised"
    /\ UNCHANGED <<registry, task_order, runVars>>
    /\ UNCHANGED iterVars
    /\ UNCHANGED auxVars

\* the head of one loop iteration: the dependency re-check, get_progress and
\* _mark_task_started; a store call may raise ProgressError
BeginTask ==
    /\ pc = "loop"
    /\ idx < Len(task_order)
    /\ idx' = idx + 1
    /\ LET task_name == task_order[idx + 1]
           existing_progress == GetProgress(store, task_name)
       IN  \/ /\ ~CheckDependenciesSatisfied(registry, task_name, completed_set)
              /\ raised' = DependencyError("not_satisfied", task_name, <<>>)
              /\ pc' = "raised"
              /\ UNCHANGED <<store, clock, store_log, store_fault>>
           \/ /\ CheckDependenciesSatisfied(registry, task_name, completed_set)
              /\ \/ /\ raised' = ProgressError(task_name)      \* get_progress raises
                    /\ store_fault' = TRUE
                    /\ pc' = "raised"
                    /\ UNCHANGED <<store, clock, store_log>>
                 \/ /\ NeedsStart(existing_progress)           \* save_progress raises
                    /\ raised' = ProgressError(task_name)
                    /\ store_fault' = TRUE
                    /\ pc' = "raised"
                    /\ clock' = clock + 1
                    /\ UNCHANGED <<store, store_log>>
                 \/ /\ NeedsStart(existing_progress)
                    /\ store' = MarkTaskStarted(store, task_name, clock)
                    /\ store_log' = Append(store_log, <<"save_progress", task_name>>)
                    /\ clock' = clock + 1
                    /\ pc' = "execute"
                    /\ UNCHANGED <<raised, store_fault>>
                 \/ /\ ~NeedsStart(existing_progress)
                    /\ pc' = "execute"
                    /\ UNCHANGED <<raised, store, clock, store_log, store_fault>>
    /\ UNCHANGED <<registry, task_order, completed_tasks, completed_set, results,
                   results_keys, ctx_results, pending, ret, executed, task_exc>>
    /\ UNCHANGED iterVars
    /\ UNCHANGED auxVars

\* _execute_task for a task that is no IterableTask
RunTask ==
    /\ pc = "execute"
    /\ CurrentTask \notin IterableTasks
    /\ \E out \in TaskOutcomes :
          /\ pending' = ExecuteTaskOutcome(CurrentTask, out)
          /\ task_exc' = IF out.kind = "raise" THEN out.msg ELSE task_exc
    /\ executed' = Append(executed, <<idx, "execute">>)
    /\ pc' = "record"
    /\ UNCHANGED <<registry, task_order, raised, idx, completed_tasks, completed_set,
                   results, results_keys, ctx_results, store, clock, ret, store_log,
                   store_fault>>
    /\ UNCHANGED iterVars
    /\ UNCHANGED auxVars

\* the checkpoint an item-iterating task saves through the store while it runs
\* (ResumeIterator._save_progress: no started_at)
TaskCheckpoint ==
    [status |-> "IN_PROGRESS", started_at |-> NoTime, completed_at |-> NoTime,
     error_message |-> NoMessage, last_processed_id |-> "id1",
     processed_items |-> 1, total_items |-> 1]

\* what _execute_iterable_task hands back for a non-empty item list: the store
\* may raise inside task.execute (fault "save") or in the get_progress that
\* follows it (fault "get"); except Exception wraps whatever was raised
ExecuteIterableOutcome(task_name, out, fault) ==
    IF fault = "save"
    THEN PendingError(IterableExecutionErrorMsg(task_name, StoreFaultMsg))
    ELSE IF out.kind = "raise"
    THEN PendingError(IterableExecutionErrorMsg(task_name, out.msg))
    ELSE IF fault = "get"
    THEN PendingError(IterableExecutionErrorMsg(task_name, StoreFaultMsg))
    ELSE PendingResult(out.status, out.msg)

\* _execute_iterable_task: get_items, then (for a non-empty list) task.execute and
\* get_progress, all inside try/except Exception
RunIterableTask ==
    /\ pc = "execute"
    /\ CurrentTask \in IterableTasks
    /\ \/ \E m \in Msgs :                                   \* get_items raises
             /\ pending' = PendingError(IterableExecutionErrorMsg(CurrentTask, <<m>>))
             /\ task_exc' = <<m>>
             /\ executed' = Append(executed, <<idx, "get_items">>)
             /\ UNCHANGED <<store, store_log, store_fault>>
       \/ /\ pending' = PendingResult("COMPLETED", NoMessage)   \* total == 0
          /\ executed' = Append(executed, <<idx, "get_items">>)
          /\ UNCHANGED <<store, store_log, store_fault, task_exc>>
       \/ \E out \in TaskOutcomes, saves \in BOOLEAN, fault \in {"none", "save", "get"} :
             /\ fault = "save" => saves
             /\ fault = "get" => out.kind = "return"
             /\ executed' = executed \o <<<<idx, "get_items">>, <<idx, "execute">>>>
             /\ IF saves /\ fault # "save"
                THEN /\ store' = SaveProgress(store, CurrentTask, TaskCheckpoint)
                     /\ store_log' = Append(store_log, <<"save_progress", CurrentTask>>)
                ELSE UNCHANGED <<store, store_log>>
             /\ store_fault' = (store_fault \/ fault # "none")
             /\ task_exc' = IF fault # "save" /\ out.kind = "raise" THEN out.msg
                            ELSE task_exc
             /\ pending' = ExecuteIterableOutcome(CurrentTask, out, fault)
    /\ pc' = "record"
    /\ UNCHANGED <<registry, task_order, raised, idx, completed_tasks, completed_set,
                   results, results_keys, ctx_results, clock, ret>>
    /\ UNCHANGED iterVars
    /\ UNCHANGED auxVars

\* results[task_name] = result, then mark_completed or _mark_task_failed and break
RecordResult ==
    /\ pc = "record"
    /\ pending.kind = "result"
    /\ LET result == TaskResult(pending.status, pending.error) IN
       /\ results' = PutResult(results, CurrentTask, result)
       /\ results_keys' = PutKey(results_keys, CurrentTask)
       /\ ctx_results' = PutResult(ctx_results, CurrentTask, result)
       /\ IF Success(result)
          THEN /\ completed_tasks' = Append(completed_tasks, CurrentTask)
               /\ completed_set' = completed_set \cup {CurrentTask}
               /\ \/ /\ store' = MarkCompleted(store, CurrentTask, clock)
                     /\ store_log' = Append(store_log, <<"mark_completed", CurrentTask>>)
                     /\ pc' = "loop"
                     /\ UNCHANGED <<raised, store_fault>>
                  \/ /\ raised' = ProgressError(CurrentTask)   \* mark_completed raises
                     /\ store_fault' = TRUE
                     /\ pc' = "raised"
                     /\ UNCHANGED <<store, store_log>>
          ELSE /\ UNCHANGED <<completed_tasks, completed_set>>
               /\ \/ /\ store' = MarkTaskFailed(store, CurrentTask,
                                     IF result.error = NoMessage THEN UnknownError
                                     ELSE result.error, clock)
                     /\ store_log' = Append(store_log, <<"save_progress", CurrentTask>>)
                     /\ pc' = "finish"
                     /\ UNCHANGED <<raised, store_fault>>
                  \/ /\ raised' = ProgressError(CurrentTask)   \* save_progress raises
                     /\ store_fault' = TRUE
                     /\ pc' = "raised"
                     /\ UNCHANGED <<store, store_log>>
    /\ clock' = clock + 1
    /\ pending' = NoPending
    /\ UNCHANGED <<registry, task_order, idx, ret, executed, task_exc>>
    /\ UNCHANGED iterVars
    /\ UNCHANGED auxVars

\* except TaskExecutionError as e: the failure result, _mark_task_failed, break
HandleTaskExecutionError ==
    /\ pc = "record"
    /\ pending.kind = "error"
    /\ LET error_result == TaskResult("FAILED", pending.error) IN
       /\ results' = PutResult(results, CurrentTask, error_result)
       /\ results_keys' = PutKey(results_keys, CurrentTask)
       /\ ctx_results' = PutResult(ctx_results, CurrentTask, error_result)
    /\ \/ /\ store' = MarkTaskFailed(store, CurrentTask, pending.error, clock)
          /\ store_log' = Append(store_log, <<"save_progress", CurrentTask>>)
          /\ pc' = "finish"
          /\ UNCHANGED <<raised, store_fault>>
       \/ /\ raised' = ProgressError(CurrentTask)              \* save_progress raises
          /\ store_fault' = TRUE
          /\ pc' = "raised"
          /\ UNCHANGED <<store, store_log>>
    /\ clock' = clock + 1
    /\ pending' = NoPending
    /\ UNCHANGED <<registry, task_order, idx, completed_tasks, completed_set, ret,
                   executed, task_exc>>
    /\ UNCHANGED iterVars
    /\ UNCHANGED auxVars

\* after the loop (exhausted or left by break): the ExecutionResult
BuildResult ==
    /\ \/ pc = "finish"
       \/ pc = "loop" /\ idx = Len(task_order)
    /\ ret' = [status |-> FinalStatus(completed_tasks, task_order),
               results |-> results,
               results_keys |-> results_keys,
               completed_tasks |-> completed_tasks,
               failed_tasks |-> FailedTasks(results, results_keys),
               metadata |-> ResultMetadata(mode, resume)]
    /\ pc' = "returned"
    /\ UNCHANGED <<registry, task_order, raised, idx, completed_tasks, completed_set,
                   results, results_keys, ctx_results, pending, store, clock, executed,
                   store_log, task_exc, store_fault>>
    /\ UNCHANGED iterVars
    /\ UNCHANGED auxVars

Next ==
    \/ ValidateDependencies
    \/ BeginTask
    \/ RunTask
    \/ RunIterableTask
    \/ RecordResult
    \/ HandleTaskExecutionError
    \/ BuildResult

Spec == Init /\ [][Next]_vars

\* ---------------------------------------------------------------- validate()
InitValidate ==
    /\ registry \in Registries
    /\ task_order \in Orders
    /\ pc = "validate"
    /\ raised = NoError
    /\ InitRun
    /\ InitIter
    /\ InitAux

\* DependencyValidator.validate(task_order, registry)
ValidateCall ==
    /\ pc = "validate"
    /\ raised' = Validate(task_order, registry)
    /\ pc' = IF raised' = NoError THEN "valid" ELSE "raised"
    /\ UNCHANGED <<registry, task_order, runVars>>
    /\ UNCHANGED iterVars
    /\ UNCHANGED auxVars

NextValidate == ValidateCall

SpecValidate == InitValidate /\ [][NextValidate]_vars

\* ---------------------------------------------------------------- ResumeIterator
\* id_extractor: the item's "id" (default_id_extractor)
IdExtractor(item) == item.id

\* a _find_start_index that resumes at the matching item instead of after it
FindStartIndexAtMatch(its, progress) ==
    IF progress.status = "absent" \/ progress.last_processed_id = None
    THEN 0
    ELSE IF \E p \in 1..Len(its) : IdExtractor(its[p]) = progress.last_processed_id
    THEN (CHOOSE p \in 1..Len(its) :
             /\ IdExtractor(its[p]) = progress.last_processed_id
             /\ \A q \in 1..(p - 1) : IdExtractor(its[q]) # progress.last_processed_id) - 1
    ELSE 0

\* ResumeIterator._find_start_index: the number of leading items to skip, that
\* is i + 1 for the first index i (counted from 0) whose item has the saved id
FindStartIndex(its, progress) ==
    IF progress.status = "absent" \/ progress.last_processed_id = None
    THEN 0
    ELSE IF \E p \in 1..Len(its) : IdExtractor(its[p]) = progress.last_processed_id
    THEN CHOOSE p \in 1..Len(its) :
             /\ IdExtractor(its[p]) = progress.last_processed_id
             /\ \A q \in 1..(p - 1) : IdExtractor(its[q]) # progress.last_processed_id
    ELSE 0

\* an __iter__ that goes on from where the previous pass stopped
IterIndexFromCurrent(start_index, current_index) == current_index

\* ResumeIterator.__iter__: self._current_index = self._start_index
IterIndex(start_index, current_index) == start_index

\* a save rule that counts the interval from the start of the list
CheckpointDueFromListStart(current_index, start_index, interval) ==
    current_index % interval = 0

\* __next__: (self._current_index - self._start_index) % self.save_interval == 0
CheckpointDue(current_index, start_index, interval) ==
    (current_index - start_index) % interval = 0

\* the TaskProgress that _save_progress(index) builds (index counted from 0)
IterCheckpoint(its, index) ==
    [status |-> "IN_PROGRESS", started_at |-> NoTime, completed_at |-> NoTime,
     error_message |-> NoMessage, last_processed_id |-> IdExtractor(its[index + 1]),
     processed_items |-> index + 1, total_items |-> Len(its)]

\* ResumeIterator._save_progress
SaveIterProgress(st, task_name, its, index) ==
    IF index < 0 \/ index >= Len(its)
    THEN st
    ELSE SaveProgress(st, task_name, IterCheckpoint(its, index))

\* the task name the iterator saves under
IterTask == "B"

ValueError == [type |-> "ValueError", kind |-> "save_interval", task |-> None, names |-> <<>>]

\* checkpoints a caller may have left in the store for the item-iterating task
StoredCheckpoints ==
    {NoProgress}
    \cup {[status |-> st, started_at |-> IF st = "FAILED" THEN NoTime ELSE 0,
           completed_at |-> IF st = "IN_PROGRESS" THEN NoTime ELSE 0,
           error_message |-> IF st = "FAILED" THEN <<"boom">> ELSE NoMessage,
           last_processed_id |-> id,
           processed_items |-> IF id = None THEN 0 ELSE 1,
           total_items |-> NoCount] :
              st \in {"IN_PROGRESS", "FAILED", "COMPLETED"}, id \in ItemIds \cup {None}}

InitIterator ==
    /\ registry \in {[t \in Tasks |-> <<>>]}
    /\ task_order = <<>>
    /\ pc = "new"
    /\ raised = NoError
    /\ InitLocals
    /\ clock = 1
    /\ resume = TRUE
    /\ items \in ItemLists
    /\ save_interval \in 0..MaxInterval
    /\ it_start = NoIndex
    /\ it_cur = 0
    /\ yielded = <<>>
    /\ passes = <<>>
    /\ ckpts = <<0>>
    /\ \E c \in StoredCheckpoints :
          entry_store = [n \in Names |-> IF n = IterTask THEN c ELSE NoProgress]
    /\ store = entry_store
    /\ InitAux

\* ResumeIterator.__init__
ResumeIteratorInit ==
    /\ pc = "new"
    /\ IF save_interval <= 0
       THEN /\ raised' = ValueError
            /\ pc' = "raised"
            /\ UNCHANGED <<it_start, it_cur>>
       ELSE /\ it_start' = FindStartIndex(items, GetProgress(store, IterTask))
            /\ it_cur' = 0
            /\ pc' = "constructed"
            /\ UNCHANGED raised
    /\ UNCHANGED <<registry, task_order, runVars, resume, items, save_interval, yielded,
                   passes, ckpts, entry_store>>
    /\ UNCHANGED auxVars

\* ResumeIterator.__iter__, called by each for loop over the iterator; the pass
\* that was under way is kept in passes
Iter ==
    /\ \/ pc = "constructed"
       \/ pc \in {"iterating", "exhausted"} /\ Len(passes) + 1 < MaxPasses
    /\ passes' = IF pc = "constructed" THEN passes
                 ELSE Append(passes, [yielded |-> yielded, complete |-> pc = "exhausted"])
    /\ it_cur' = IterIndex(it_start, it_cur)
    /\ yielded' = <<>>
    /\ pc' = "iterating"
    /\ UNCHANGED <<registry, task_order, raised, runVars, resume, items, save_interval,
                   it_start, ckpts, entry_store>>
    /\ UNCHANGED auxVars

\* ResumeIterator.__next__: StopIteration at the end of the list, otherwise the
\* next item, with a checkpoint saved every save_interval items
NextItem ==
    /\ pc = "iterating"
    /\ IF it_cur >= Len(items)
       THEN /\ pc' = "exhausted"
            /\ UNCHANGED <<it_cur, yielded, store, store_log>>
       ELSE /\ it_cur' = it_cur + 1
            /\ yielded' = Append(yielded, it_cur + 1)
            /\ IF CheckpointDue(it_cur + 1, it_start, save_interval)
               THEN /\ store' = SaveIterProgress(store, IterTask, items, it_cur)
                    /\ store_log' = Append(store_log, <<"save_progress", IterTask>>)
               ELSE UNCHANGED <<store, store_log>>
            /\ pc' = "iterating"
    /\ UNCHANGED <<registry, task_order, raised, idx, completed_tasks, completed_set,
                   results, results_keys, ctx_results, pending, clock, ret, executed,
                   task_exc, store_fault, resume, items, save_interval, it_start, passes,
                   ckpts, entry_store>>
    /\ UNCHANGED auxVars

NextIterator ==
    \/ ResumeIteratorInit
    \/ Iter
    \/ NextItem

SpecIterator == InitIterator /\ [][NextIterator]_vars

\* ================================================================ claims
\* what the claims say about an order, stated apart from the validator's code
OrderRegistered == \A k \in 1..Len(task_order) : task_order[k] \in DOMAIN registry

DepSet(t) == IF t \in DOMAIN registry THEN Range(registry[t]) ELSE {}

\* the dependency relation restricted to the order: t depends on d, both listed
Edge(t, d) == t \in Range(task_order) /\ d \in Range(task_order) /\ d \in DepSet(t)

RECURSIVE Closure(_)

Closure(S) ==
    LET S2 == S \cup {d \in Range(task_order) : \E u \in S : Edge(u, d)}
    IN  IF S2 = S THEN S ELSE Closure(S2)

OrderHasCycle ==
    \E t \in Range(task_order) : t \in Closure({d \in Range(task_order) : Edge(t, d)})

\* every dependency of every listed task is listed at a strictly earlier position
DepsStrictlyEarlier ==
    \A i \in 1..Len(task_order) :
        \A d \in DepSet(task_order[i]) : \E j \in 1..(i - 1) : task_order[j] = d

\* a report names a cycle: it starts and ends with the same task and every name
\* depends on the name that follows it
IsCycleReport(c) ==
    /\ Len(c) >= 2
    /\ c[1] = c[Len(c)]
    /\ \A k \in 1..(Len(c) - 1) : Edge(c[k], c[k + 1])

LastPos(n) == CHOOSE k \in 1..Len(task_order) :
                 task_order[k] = n /\ \A j \in 1..Len(task_order) : task_order[j] = n => j <= k

\* the dependencies of t absent from the order, and those listed but whose last
\* occurrence is not before the last occurrence of t
MissingOf(t) == SelectSeq(registry[t], LAMBDA d : d \notin Range(task_order))

MisplacedOf(t) ==
    SelectSeq(registry[t], LAMBDA d : d \in Range(task_order) /\ LastPos(d) >= LastPos(t))

Offends(t) == MissingOf(t) # <<>> \/ MisplacedOf(t) # <<>>

\* position k holds the first task of the order with a missing or misplaced dependency
FirstOffender(k) ==
    /\ Offends(task_order[k])
    /\ \A j \in 1..(k - 1) : ~Offends(task_order[j])

Validated == pc \in {"valid", "raised"}

\* C3 (as claimed): validate raises nothing exactly for the orders whose names are
\* all registered, whose every dependency is listed at a strictly earlier
\* position, and whose order-restricted dependency relation is acyclic; it
\* raises DependencyError for every other order.
C3_ValidateIffWellFormed ==
    Validated =>
        ((raised = NoError) <=> (OrderRegistered /\ DepsStrictlyEarlier /\ ~OrderHasCycle))

\* C4 (as claimed): for any order whose order-restricted dependency graph has a
\* cycle, validate fails with an error naming a cycle.
C4_CycleAlwaysNamed ==
    (Validated /\ OrderHasCycle) =>
        (raised.kind = "cyclic" /\ IsCycleReport(raised.names))

\* C4 (amended): for any order of registered names whose order-restricted
\* dependency graph has a cycle (a self-dependency included), validate fails with
\* an error naming a cycle: the reported names start and end with the same task
\* and every name depends on the name that follows it.
C4_CycleNamedWhenRegistered ==
    (Validated /\ OrderRegistered /\ OrderHasCycle) =>
        (raised.type = "DependencyError" /\ raised.kind = "cyclic"
            /\ IsCycleReport(raised.names))

\* C4 witness: a cycle of two tasks, entered from a third task outside it, is reported
C4_Witness ==
    /\ pc = "raised"
    /\ raised.kind = "cyclic"
    /\ Len(raised.names) = 3
    /\ task_order[1] \notin Range(raised.names)
    /\ task_order[1] \in DOMAIN registry
    /\ Edge(task_order[1], raised.names[1])

\* C5 (as claimed): whenever a listed task X depends on Y and Y is absent from
\* the order, validate fails with an error citing X's missing dependency Y.
C5_MissingDependencyAlwaysCited ==
    Validated =>
        \A k \in 1..Len(task_order) : \A y \in DepSet(task_order[k]) :
            y \notin Range(task_order) =>
                (raised.kind = "not_in_order" /\ raised.task = task_order[k]
                    /\ y \in Range(raised.names))

\* C5 (amended): whenever a listed task X depends on Y and Y is absent from the
\* order, validate fails; when moreover all names are registered, the
\* order-restricted graph is acyclic and X is the first task of the order with a
\* missing or misplaced dependency, the error cites X and lists exactly X's
\* missing dependencies, Y among them.
C5_MissingDependencyCitedForFirstOffender ==
    Validated =>
        \A k \in 1..Len(task_order) : \A y \in DepSet(task_order[k]) :
            y \notin Range(task_order) =>
                /\ raised.type = "DependencyError"
                /\ (OrderRegistered /\ ~OrderHasCycle /\ FirstOffender(k)) =>
                      /\ raised.kind = "not_in_order"
                      /\ raised.task = task_order[k]
                      /\ raised.names = MissingOf(task_order[k])
                      /\ y \in Range(raised.names)

\* C5 witness: an error citing two missing dependencies of one task
C5_Witness ==
    /\ pc = "raised"
    /\ raised.kind = "not_in_order"
    /\ Len(raised.names) = 2
    /\ OrderRegistered /\ ~OrderHasCycle

\* C6 (as claimed, its weakest part): whenever all names are registered and Y is
\* listed after X while X depends on Y, validate fails.
C6_OutOfOrderRejected ==
    (Validated /\ OrderRegistered) =>
        \A i \in 1..Len(task_order) : \A j \in (i + 1)..Len(task_order) :
            task_order[j] \in DepSet(task_order[i]) => raised.type = "DependencyError"

\* C7 (as claimed): the order-consistency error lists the missing and
\* out-of-order dependencies of every task in the order.
C7_OrderErrorListsEveryTask ==
    (Validated /\ raised.kind \in {"not_in_order", "wrong_order"}) =>
        \A t \in Range(task_order) :
            Offends(t) =>
                /\ raised.task = t
                /\ Range(MissingOf(t)) \cup Range(MisplacedOf(t)) \subseteq Range(raised.names)

\* C7 (amended): the checks run in the order existence, cycle freedom, order
\* consistency and the first failing check ends validation. The existence error
\* lists every unregistered name of the order; the cycle error names one cycle;
\* the order-consistency error is about the first task of the order with a
\* missing or misplaced dependency only, and lists that task's missing
\* dependencies or, when it has none, its misplaced dependencies.
C7_ChecksInOrderFirstOffenderReported ==
    Validated =>
        /\ ~OrderRegistered =>
              /\ raised.kind = "not_found"
              /\ raised.names = SelectSeq(task_order, LAMBDA n : n \notin DOMAIN registry)
        /\ (OrderRegistered /\ OrderHasCycle) => raised.kind = "cyclic"
        /\ (OrderRegistered /\ ~OrderHasCycle) =>
              \A k \in 1..Len(task_order) :
                  FirstOffender(k) =>
                      /\ raised.task = task_order[k]
                      /\ IF MissingOf(task_order[k]) # <<>>
                         THEN raised.kind = "not_in_order"
                              /\ raised.names = MissingOf(task_order[k])
                         ELSE raised.kind = "wrong_order"
                              /\ raised.names = MisplacedOf(task_order[k])
        /\ raised.kind \in {"not_in_order", "wrong_order"} =>
              (OrderRegistered /\ ~OrderHasCycle)

\* C7 witness: an order-consistency error raised while a second task of the order
\* has a violation of its own and the cited task has missing and misplaced
\* dependencies at once
C7_Witness ==
    /\ pc = "raised"
    /\ raised.kind = "not_in_order"
    /\ MisplacedOf(raised.task) # <<>>
    /\ \E t \in Range(task_order) : t # raised.task /\ Offends(t)

\* ---------------------------------------------------------------- execute
Returned == pc = "returned"

\* the run ended with the failure of the task at position idx
FailedAtIdx == Returned /\ idx >= 1 /\ ~Success(ret.results[task_order[idx]])

ExecutedPositions == {executed[k][1] : k \in 1..Len(executed)}

\* C1: when the task at position K is the first to fail (a non-successful result
\* or an exception), the returned ExecutionResult has completed_tasks equal to
\* the tasks before K in order, failed_tasks equal to [K], results entries for
\* exactly the names at positions up to K, and no position after K was started
\* (no start checkpoint, no task code invoked).
C1_FailFast ==
    FailedAtIdx =>
        /\ ret.completed_tasks = SubSeq(task_order, 1, idx - 1)
        /\ ret.failed_tasks = <<task_order[idx]>>
        /\ Range(ret.results_keys) = {task_order[k] : k \in 1..idx}
        /\ \A n \in Names : n \notin Range(ret.results_keys) => ret.results[n] = NoTaskResult
        /\ ExecutedPositions = 1..idx
        /\ \A k \in 1..Len(store_log) : store_log[k][2] \in {task_order[j] : j \in 1..idx}
        /\ ret.status = "FAILED"

\* C1 witness: the second of three distinct tasks failed by raising; the third,
\* which depends on it, has not run
C1_Witness ==
    /\ FailedAtIdx
    /\ idx = 2
    /\ Len(task_order) = 3
    /\ NoRepeat(task_order)
    /\ task_exc # NoMessage
    /\ task_order[2] \in DepSet(task_order[3])

\* C2 (as claimed): whenever execute raises DependencyError, no task has been
\* executed and no checkpoint has been written to the store.
C2_DependencyErrorBeforeAnyTask ==
    (pc = "raised" /\ raised.type = "DependencyError") =>
        (executed = <<>> /\ store_log = <<>>)

C10_StoreErrorsPropagate ==
    Returned => ~store_fault

\* ---------------------------------------------------------------- resumed runs
\* runs of execute in which the IterableTask iterates its items the way the
\* SimpleIterableTask of the tests does: through a ResumeIterator when
\* context.metadata["resume"] is set, through iter(items) otherwise

\* an interruption of the process (KeyboardInterrupt is no Exception)
Interrupted == [type |-> "KeyboardInterrupt", kind |-> "interrupt", task |-> None,
                names |-> <<>>]

\* item lists with pairwise distinct ids
ResumeItemLists == {its \in ItemLists : NoRepeat(its)}

\* the item-iterating task alone, after a plain task, and before a name that is
\* not registered (an order validate rejects)
ResumeOrders == {<<"B">>, <<"A", "B">>, <<"B", Unregistered>>}

InitResume ==
    /\ registry = [t \in Tasks |-> <<>>]
    /\ task_order \in ResumeOrders
    /\ pc = "validate"
    /\ raised = NoError
    /\ InitLocals
    /\ clock = 1
    /\ resume \in BOOLEAN
    /\ items \in ResumeItemLists
    /\ save_interval \in 1..MaxInterval
    /\ it_start = NoIndex
    /\ it_cur = 0
    /\ yielded = <<>>
    /\ passes = <<>>
    /\ ckpts = <<0>>
    /\ \E c \in StoredCheckpoints :
          entry_store = [n \in Names |-> IF n = IterTask THEN c ELSE NoProgress]
    /\ store = entry_store
    /\ InitAux

\* _execute_iterable_task up to the call of task.execute: items = list(get_items),
\* an empty list ends the task with a success result
GetItems ==
    /\ pc = "execute"
    /\ CurrentTask \in IterableTasks
    /\ executed' = Append(executed, <<idx, "get_items">>)
    /\ IF NoItems(Len(items))
       THEN /\ pending' = PendingResult("COMPLETED", NoMessage)
            /\ pc' = "record"
       ELSE /\ pc' = "task_execute"
            /\ UNCHANGED pending
    /\ UNCHANGED <<registry, task_order, raised, idx, completed_tasks, completed_set,
                   results, results_keys, ctx_results, store, clock, ret, store_log,
                   task_exc, store_fault>>
    /\ UNCHANGED iterVars
    /\ UNCHANGED auxVars

\* task.execute up to its for loop: with resume the task constructs a
\* ResumeIterator (which reads the store) and the loop calls __iter__; without
\* it the loop runs over iter(items)
OpenIterator ==
    /\ pc = "task_execute"
    /\ executed' = Append(executed, <<idx, "execute">>)
    /\ yielded' = <<>>
    /\ \/ /\ ContextMetadata(mode, resume).resume         \* get_progress raises
          /\ pending' = PendingError(IterableExecutionErrorMsg(CurrentTask, StoreFaultMsg))
          /\ store_fault' = TRUE
          /\ pc' = "record"
          /\ UNCHANGED <<it_start, it_cur>>
       \/ /\ ContextMetadata(mode, resume).resume
          /\ it_start' = FindStartIndex(items, GetProgress(store, CurrentTask))
          /\ it_cur' = IterIndex(it_start', 0)
          /\ pc' = "iterate"
          /\ UNCHANGED <<pending, store_fault>>
       \/ /\ ~ContextMetadata(mode, resume).resume
          /\ it_start' = NoIndex
          /\ it_cur' = 0
          /\ pc' = "iterate"
          /\ UNCHANGED <<pending, store_fault>>
    /\ UNCHANGED <<registry, task_order, raised, idx, completed_tasks, completed_set,
                   results, results_keys, ctx_results, store, clock, ret, store_log,
                   task_exc, resume, items, save_interval, passes, ckpts, entry_store>>
    /\ UNCHANGED auxVars

\* one turn of the task's for loop: __next__ (with the checkpoint it may save)
\* and execute_for_item, which may raise; at the end of the list the task
\* returns a success result and _execute_iterable_task reads the store
ProcessItem ==
    /\ pc = "iterate"
    /\ IF it_cur >= Len(items)
       THEN /\ \/ /\ pending' = PendingResult("COMPLETED", NoMessage)
                  /\ UNCHANGED store_fault
               \/ /\ pending' = PendingError(                   \* get_progress raises
                                   IterableExecutionErrorMsg(CurrentTask, StoreFaultMsg))
                  /\ store_fault' = TRUE
            /\ pc' = "record"
            /\ UNCHANGED <<it_cur, yielded, store, store_log, task_exc, ckpts, handled>>
       ELSE /\ it_cur' = it_cur + 1
            /\ LET due == it_start # NoIndex
                          /\ CheckpointDue(it_cur + 1, it_start, save_interval)
               IN  \/ /\ due                                    \* save_progress raises
                      /\ pending' = PendingError(
                                       IterableExecutionErrorMsg(CurrentTask, StoreFaultMsg))
                      /\ store_fault' = TRUE
                      /\ pc' = "record"
                      /\ UNCHANGED <<yielded, store, store_log, task_exc, ckpts, handled>>
                   \/ /\ IF due
                         THEN /\ store' = SaveIterProgress(store, CurrentTask, items, it_cur)
                              /\ store_log' = Append(store_log,
                                                     <<"save_progress", CurrentTask>>)
                              /\ ckpts' = [ckpts EXCEPT ![Len(ckpts)] = it_cur + 1]
                         ELSE UNCHANGED <<store, store_log, ckpts>>
                      /\ yielded' = Append(yielded, it_cur + 1)
                      /\ UNCHANGED store_fault
                      /\ \/ /\ pc' = "iterate"              \* execute_for_item returns
                            /\ handled' = handled \cup {it_cur + 1}
                            /\ UNCHANGED <<pending, task_exc>>
                         \/ \E m \in Msgs :                     \* execute_for_item raises
                               /\ pending' = PendingError(
                                                IterableExecutionErrorMsg(CurrentTask, <<m>>))
                               /\ task_exc' = <<m>>
                               /\ pc' = "record"
                               /\ UNCHANGED handled
                         \/ /\ pc' = "interrupted"          \* interrupted in execute_for_item
                            /\ UNCHANGED <<pending, task_exc, handled>>
    /\ raised' = IF pc' = "interrupted" THEN Interrupted ELSE raised
    /\ UNCHANGED <<registry, task_order, idx, completed_tasks, completed_set,
                   results, results_keys, ctx_results, clock, ret, executed, resume,
                   items, save_interval, it_start, passes, entry_store>>
    /\ UNCHANGED <<limVars, paramVars, regVars, modeVars>>

\* the process is interrupted while the task iterates: the interruption is not
\* caught by except Exception and leaves execute at once
Interrupt ==
    /\ pc = "iterate"
    /\ raised' = Interrupted
    /\ pc' = "interrupted"
    /\ UNCHANGED <<registry, task_order, runVars, iterVars>>
    /\ UNCHANGED auxVars

\* the next run of the lineage: execute(task_order, resume=True) over the same
\* store and the same items
ResumeRun ==
    /\ pc \in {"returned", "raised", "interrupted"}
    /\ Len(ckpts) < MaxRuns
    /\ pc' = "validate"
    /\ raised' = NoError
    /\ idx' = 0
    /\ completed_tasks' = <<>>
    /\ completed_set' = {}
    /\ results' = [n \in Names |-> NoTaskResult]
    /\ results_keys' = <<>>
    /\ ctx_results' = [n \in Names |-> NoTaskResult]
    /\ pending' = NoPending
    /\ ret' = NoResult
    /\ executed' = <<>>
    /\ store_log' = <<>>
    /\ task_exc' = NoMessage
    /\ store_fault' = FALSE
    /\ resume' = TRUE
    /\ it_start' = NoIndex
    /\ it_cur' = 0
    /\ yielded' = <<>>
    /\ ckpts' = Append(ckpts, 0)
    /\ entry_store' = store
    /\ UNCHANGED <<registry, task_order, store, clock, items, save_interval, passes>>
    /\ UNCHANGED auxVars

NextResume ==
    \/ ValidateDependencies
    \/ BeginTask
    \/ RunTask
    \/ GetItems
    \/ OpenIterator
    \/ ProcessItem
    \/ Interrupt
    \/ RecordResult
    \/ HandleTaskExecutionError
    \/ BuildResult
    \/ ResumeRun

SpecResume == InitResume /\ [][NextResume]_vars

\* ---------------------------------------------------------------- two runs that differ in mode
\* what the plain task does when executed, the same in both runs
ModeOutcomes ==
    {[kind |-> "return", status |-> "COMPLETED", msg |-> NoMessage],
     [kind |-> "return", status |-> "FAILED", msg |-> <<"boom">>],
     [kind |-> "raise", status |-> None, msg |-> <<"boom">>]}

\* the plain task's outcome and the position of the item execute_for_item
\* raises on (0: on none), the same in both runs
Behaviours == [outcome : ModeOutcomes, fail_at : 0..MaxItems]

\* execute(task_order, mode="run", resume) over a store some caller left
InitMode ==
    /\ registry = [t \in Tasks |-> <<>>]
    /\ task_order \in ResumeOrders
    /\ pc = "validate"
    /\ raised = NoError
    /\ InitLocals
    /\ clock = 1
    /\ resume \in BOOLEAN
    /\ items \in ResumeItemLists
    /\ save_interval \in 1..MaxInterval
    /\ it_start = NoIndex
    /\ it_cur = 0
    /\ yielded = <<>>
    /\ passes = <<>>
    /\ ckpts = <<0>>
    /\ \E c \in StoredCheckpoints :
          entry_store = [n \in Names |-> IF n = IterTask THEN c ELSE NoProgress]
    /\ store = entry_store
    /\ InitLim
    /\ InitNoParam
    /\ InitNoRegistryCalls
    /\ handled = {}
    /\ mode = "run"
    /\ behaviour \in Behaviours
    /\ behaviour.fail_at <= Len(items)
    /\ ("A" \notin {task_order[k] : k \in 1..Len(task_order)})
          => behaviour.outcome = AnyBehaviour.outcome
    /\ first = NoFirst

\* the task code does in this step what behaviour lays down, the store does
\* not fail and the process is not interrupted
FollowsBehaviour ==
    /\ store_fault' = FALSE
    /\ pc' # "interrupted"
    /\ (pc = "execute" /\ CurrentTask \notin IterableTasks)
          => pending' = ExecuteTaskOutcome(CurrentTask, behaviour.outcome)
    /\ (pc = "iterate" /\ it_cur < Len(items))
          => /\ (pc' = "record") = (it_cur + 1 = behaviour.fail_at)
             /\ pc' = "record" => task_exc' = <<"boom">>

\* the second run: the same call over the same store at the same time, with
\* another mode
TwinRun ==
    /\ pc \in {"returned", "raised"}
    /\ ~first.taken
    /\ first' = [taken |-> TRUE, mode |-> mode, store |-> store, store_log |-> store_log,
                 executed |-> executed, yielded |-> yielded, passes |-> passes,
                 ret |-> ret, raised |-> raised]
    /\ \E m \in TaskModes \ {mode} : mode' = m
    /\ pc' = "validate"
    /\ raised' = NoError
    /\ idx' = 0
    /\ completed_tasks' = <<>>
    /\ completed_set' = {}
    /\ results' = [n \in Names |-> NoTaskResult]
    /\ results_keys' = <<>>
    /\ ctx_results' = [n \in Names |-> NoTaskResult]
    /\ pending' = NoPending
    /\ ret' = NoResult
    /\ executed' = <<>>
    /\ store_log' = <<>>
    /\ task_exc' = NoMessage
    /\ store_fault' = FALSE
    /\ store' = entry_store
    /\ clock' = 1
    /\ it_start' = NoIndex
    /\ it_cur' = 0
    /\ yielded' = <<>>
    /\ ckpts' = <<0>>
    /\ handled' = {}
    /\ UNCHANGED <<registry, task_order, resume, items, save_interval, passes, entry_store,
                   limVars, paramVars, regVars, behaviour>>

NextMode ==
    \/ ValidateDependencies /\ FollowsBehaviour
    \/ BeginTask /\ FollowsBehaviour
    \/ RunTask /\ FollowsBehaviour
    \/ GetItems /\ FollowsBehaviour
    \/ OpenIterator /\ FollowsBehaviour
    \/ ProcessItem /\ FollowsBehaviour
    \/ RecordResult /\ FollowsBehaviour
    \/ HandleTaskExecutionError /\ FollowsBehaviour
    \/ BuildResult /\ FollowsBehaviour
    \/ TwinRun

SpecMode == InitMode /\ [][NextMode]_vars

\* ---------------------------------------------------------------- LimitingIterator
\* the source is an iterator over the items 1, 2, .. (src_len of them, or
\* without end); src_pos of them were handed out

LimitError == [type |-> "ValueError", kind |-> "limit", task |-> None, names |-> <<>>]

\* next(self.iterator) raises StopIteration
SourceExhausted(len, pos) == len # Unbounded /\ pos >= len

\* a limit test that never stops the pass
LimitReachedNever(count, limit) == FALSE

\* a limit test that lets one more item through
LimitReachedLate(count, limit) == count > limit

\* __next__: self._count >= self.limit
LimitReached(count, limit) == count >= limit

InitLimit ==
    /\ registry = [t \in Tasks |-> <<>>]
    /\ task_order = <<>>
    /\ pc = "lim_new"
    /\ raised = NoError
    /\ InitRun
    /\ InitIter
    /\ InitNoParam
    /\ InitExt
    /\ lim_limit \in 0..MaxLimit
    /\ lim_count = 0
    /\ src_len \in (0..MaxSource) \cup {Unbounded}
    /\ src_pos = 0
    /\ lim_stops = 0

\* LimitingIterator.__init__
LimitingIteratorInit ==
    /\ pc = "lim_new"
    /\ IF lim_limit <= 0
       THEN /\ raised' = LimitError
            /\ pc' = "raised"
       ELSE /\ pc' = "lim_constructed"
            /\ UNCHANGED raised
    /\ lim_count' = 0
    /\ UNCHANGED <<registry, task_order, runVars, iterVars, paramVars, lim_limit, src_len,
                   src_pos, lim_stops>>
    /\ UNCHANGED extVars

\* LimitingIterator.__iter__, called by each for loop over the iterator; the pass
\* that was under way is kept in passes
LimIter ==
    /\ \/ pc = "lim_constructed"
       \/ pc \in {"lim_iterating", "lim_stopped"} /\ Len(passes) + 1 < MaxPasses
    /\ passes' = IF pc = "lim_constructed" THEN passes
                 ELSE Append(passes, [yielded |-> yielded, complete |-> pc = "lim_stopped"])
    /\ lim_count' = 0
    /\ lim_stops' = 0
    /\ yielded' = <<>>
    /\ pc' = "lim_iterating"
    /\ UNCHANGED <<registry, task_order, raised, runVars, resume, items, save_interval,
                   it_start, it_cur, ckpts, entry_store, paramVars, lim_limit, src_len,
                   src_pos>>
    /\ UNCHANGED extVars

\* LimitingIterator.__next__: StopIteration once the limit is reached or when the
\* source raises it, otherwise the source's next item
LimNext ==
    /\ pc \in {"lim_iterating", "lim_stopped"}
    /\ lim_stops < MaxStops
    /\ IF LimitReached(lim_count, lim_limit) \/ SourceExhausted(src_len, src_pos)
       THEN /\ pc' = "lim_stopped"
            /\ lim_stops' = lim_stops + 1
            /\ UNCHANGED <<lim_count, src_pos, yielded>>
       ELSE /\ src_pos' = src_pos + 1
            /\ lim_count' = lim_count + 1
            /\ yielded' = Append(yielded, src_pos + 1)
            /\ pc' = "lim_iterating"
            /\ UNCHANGED lim_stops
    /\ UNCHANGED <<registry, task_order, raised, runVars, resume, items, save_interval,
                   it_start, it_cur, passes, ckpts, entry_store, paramVars, lim_limit,
                   src_len>>
    /\ UNCHANGED extVars

NextLimit ==
    \/ LimitingIteratorInit
    \/ LimIter
    \/ LimNext

SpecLimit == InitLimit /\ [][NextLimit]_vars

\* ---------------------------------------------------------------- LimitingIterator over ResumeIterator
\* LimitingIterator(source, limit) with a ResumeIterator as source; the caller
\* hands over the ResumeIterator itself or iter() of it

InitLimitResume ==
    /\ registry = [t \in Tasks |-> <<>>]
    /\ task_order = <<>>
    /\ pc = "lr_new"
    /\ raised = NoError
    /\ InitLocals
    /\ clock = 1
    /\ resume = TRUE
    /\ items \in ItemLists
    /\ save_interval \in 1..MaxInterval
    /\ it_start = NoIndex
    /\ it_cur = 0
    /\ yielded = <<>>
    /\ passes = <<>>
    /\ ckpts = <<0>>
    /\ \E c \in StoredCheckpoints :
          entry_store = [n \in Names |-> IF n = IterTask THEN c ELSE NoProgress]
    /\ store = entry_store
    /\ InitNoParam
    /\ InitExt
    /\ lim_limit \in 1..MaxLimit
    /\ lim_count = 0
    /\ src_len = Len(items)
    /\ src_pos = 0
    /\ lim_stops = 0

\* ResumeIterator.__init__, iter() of it or not, and LimitingIterator.__init__
WrapResumeIterator ==
    /\ pc = "lr_new"
    /\ it_start' = FindStartIndex(items, GetProgress(store, IterTask))
    /\ \/ it_cur' = 0                                   \* the ResumeIterator as it is
       \/ it_cur' = IterIndex(it_start', 0)              \* iter(resume_iterator)
    /\ lim_count' = 0
    /\ pc' = "lr_constructed"
    /\ UNCHANGED <<registry, task_order, raised, runVars, resume, items, save_interval,
                   yielded, passes, ckpts, entry_store, paramVars, lim_limit, src_len,
                   src_pos, lim_stops>>
    /\ UNCHANGED extVars

\* LimitingIterator.__iter__: the counter is reset, the source is left as it is
LimResumeIter ==
    /\ \/ pc = "lr_constructed"
       \/ pc \in {"lr_iterating", "lr_stopped"} /\ Len(passes) + 1 < MaxPasses
    /\ passes' = IF pc = "lr_constructed" THEN passes
                 ELSE Append(passes, [yielded |-> yielded, complete |-> pc = "lr_stopped"])
    /\ lim_count' = 0
    /\ lim_stops' = 0
    /\ yielded' = <<>>
    /\ pc' = "lr_iterating"
    /\ UNCHANGED <<registry, task_order, raised, runVars, resume, items, save_interval,
                   it_start, it_cur, ckpts, entry_store, paramVars, lim_limit, src_len,
                   src_pos>>
    /\ UNCHANGED extVars

\* LimitingIterator.__next__ over ResumeIterator.__next__: StopIteration once the
\* limit is reached, without a call of the source; otherwise the source's
\* StopIteration or its next item, with the checkpoint the source saves
LimResumeNext ==
    /\ pc \in {"lr_iterating", "lr_stopped"}
    /\ lim_stops < MaxStops
    /\ IF LimitReached(lim_count, lim_limit)
       THEN /\ pc' = "lr_stopped"
            /\ lim_stops' = lim_stops + 1
            /\ UNCHANGED <<lim_count, src_pos, yielded, it_cur, store, store_log>>
       ELSE IF it_cur >= Len(items)
       THEN /\ pc' = "lr_stopped"
            /\ lim_stops' = lim_stops + 1
            /\ UNCHANGED <<lim_count, src_pos, yielded, it_cur, store, store_log>>
       ELSE /\ it_cur' = it_cur + 1
            /\ IF CheckpointDue(it_cur + 1, it_start, save_interval)
               THEN /\ store' = SaveIterProgress(store, IterTask, items, it_cur)
                    /\ store_log' = Append(store_log, <<"save_progress", IterTask>>)
               ELSE UNCHANGED <<store, store_log>>
            /\ src_pos' = src_pos + 1
            /\ lim_count' = lim_count + 1
            /\ yielded' = Append(yielded, it_cur + 1)
            /\ pc' = "lr_iterating"
            /\ UNCHANGED lim_stops
    /\ UNCHANGED <<registry, task_order, raised, idx, completed_tasks, completed_set,
                   results, results_keys, ctx_results, pending, clock, ret, executed,
                   task_exc, store_fault, resume, items, save_interval, it_start, passes,
                   ckpts, entry_store, paramVars, lim_limit, src_len>>
    /\ UNCHANGED extVars

NextLimitResume ==
    \/ WrapResumeIterator
    \/ LimResumeIter
    \/ LimResumeNext

SpecLimitResume == InitLimitResume /\ [][NextLimitResume]_vars

\* ---------------------------------------------------------------- TaskRegistry
MaxRegCalls == 3

\* the tasks handed to register: two tasks of one name differ in depends_on
RegTasks == [name : Tasks, depends_on : {<<>>, <<"A">>}]

DuplicateError(task_name) ==
    [type |-> "ValueError", kind |-> "duplicate_name", task |-> task_name, names |-> <<>>]

NotFoundError(task_name) ==
    [type |-> "KeyError", kind |-> "not_found", task |-> task_name, names |-> <<>>]

CheckUniqueNameNever(tasks, task_name) == NoError

\* _check_unique_name: the error it raises, NoError when it returns
CheckUniqueName(tasks, task_name) ==
    IF task_name \in DOMAIN tasks THEN DuplicateError(task_name) ELSE NoError

\* self._tasks[task_name] = task
SetTask(tasks, task) ==
    [n \in (DOMAIN tasks) \cup {task.name} |->
        IF n = task.name THEN task.depends_on ELSE tasks[n]]

\* the order of the keys of a dict after d[key] = value: a new key goes last
KeysAfterSet(keys, tasks, key) ==
    IF key \in DOMAIN tasks THEN keys ELSE Append(keys, key)

\* TaskRegistry(): self._tasks = {}
InitRegistry ==
    /\ registry = [n \in {} |-> <<>>]
    /\ task_order = <<>>
    /\ pc = "registry"
    /\ raised = NoError
    /\ InitRun
    /\ InitIter
    /\ InitLim
    /\ InitNoParam
    /\ InitNoRegistryCalls
    /\ handled = {}
    /\ InitOneMode

\* TaskRegistry.register
Register ==
    /\ pc = "registry"
    /\ Len(reg_calls) < MaxRegCalls
    /\ \E task \in RegTasks :
          /\ reg_calls' = Append(reg_calls, task)
          /\ reg_out' = [op |-> "register", name |-> task.name, value |-> <<>>]
          /\ raised' = CheckUniqueName(registry, task.name)
          /\ IF raised' # NoError
             THEN UNCHANGED <<registry, reg_order>>
             ELSE /\ registry' = SetTask(registry, task)
                  /\ reg_order' = KeysAfterSet(reg_order, registry, task.name)
    /\ UNCHANGED <<task_order, pc, runVars, iterVars, limVars, paramVars, handled, modeVars>>

\* TaskRegistry.get
Get ==
    /\ pc = "registry"
    /\ \E task_name \in Names :
          IF task_name \notin DOMAIN registry
          THEN /\ raised' = NotFoundError(task_name)
               /\ reg_out' = [op |-> "get", name |-> task_name, value |-> <<>>]
          ELSE /\ raised' = NoError
               /\ reg_out' = [op |-> "get", name |-> task_name,
                              value |-> [name |-> task_name,
                                         depends_on |-> registry[task_name]]]
    /\ UNCHANGED <<registry, task_order, pc, runVars, iterVars, limVars, paramVars,
                   reg_order, reg_calls, handled, modeVars>>

\* TaskRegistry.get_all: list(self._tasks.values())
GetAll ==
    /\ pc = "registry"
    /\ raised' = NoError
    /\ reg_out' = [op |-> "get_all", name |-> "",
                   value |-> [k \in 1..Len(reg_order) |->
                                 [name |-> reg_order[k],
                                  depends_on |-> registry[reg_order[k]]]]]
    /\ UNCHANGED <<registry, task_order, pc, runVars, iterVars, limVars, paramVars,
                   reg_order, reg_calls, handled, modeVars>>

NextRegistry ==
    \/ Register
    \/ Get
    \/ GetAll

SpecRegistry == InitRegistry /\ [][NextRegistry]_vars

\* ---------------------------------------------------------------- ParameterizedIterableTask
Params == {"p1", "p2"}

ParamLists == UNION {[1..n -> Params] : n \in 0..MaxParams}

\* str(e) of the ValueError that list.remove raises
RemoveMsg == "list.remove(x): x not in list"

\* execute_for_parameter returns ("ok") or raises an exception with a message
ParamOutcomes == {"ok"} \cup Msgs

\* what on_error returns: the default implementation returns None
HookDecisions(overridden) == IF overridden THEN {"None", "True", "False"} ELSE {"None"}

RetryError == [type |-> "ValueError", kind |-> "max_retries", task |-> None, names |-> <<>>]

\* x in errors
Contains(errs, e) == \E k \in 1..Len(errs) : errs[k] = e

\* errors.remove(x) for an x that is in the list: the first equal entry goes
RemoveFirst(errs, e) ==
    LET k == CHOOSE i \in 1..Len(errs) : errs[i] = e /\ \A j \in 1..(i - 1) : errs[j] # e
    IN  [i \in 1..(Len(errs) - 1) |-> IF i < k THEN errs[i] ELSE errs[i + 1]]

\* a failure handler that never records the error
ErrorsAfterFailureNone(errs, tries, perr) == errs

\* if retries == 0: errors.append(param_error)
ErrorsAfterFailure(errs, tries, perr) == IF tries = 0 THEN Append(errs, perr) ELSE errs

\* a hook rule under which a False decision only abandons the parameter
HookOutcomeFalseGoesOn(decision, strategy, tries, max) ==
    IF strategy = "retry" /\ tries < max /\ decision = "True" THEN "retry" ELSE "next"

\* the hook returned a definite decision: stop on False, otherwise another attempt
\* under retry while retries remain, else the next parameter
HookOutcome(decision, strategy, tries, max) ==
    IF decision = "False" THEN "stop"
    ELSE IF strategy = "retry" /\ tries < max THEN "retry"
    ELSE "next"

\* a retry policy that stops the whole list once the retries are used up
StrategyOutcomeStopsWhenExhausted(strategy, tries, max) ==
    IF strategy = "stop" THEN "stop"
    ELSE IF strategy = "continue" THEN "next"
    ELSE IF tries < max THEN "retry"
    ELSE "stop"

\* the hook returned None: error_strategy decides
StrategyOutcome(strategy, tries, max) ==
    IF strategy = "stop" THEN "stop"
    ELSE IF strategy = "continue" THEN "next"
    ELSE IF tries < max THEN "retry"
    ELSE "next"

\* what follows a failed attempt
AfterFailure(decision, strategy, tries, max) ==
    IF decision # "None"
    THEN HookOutcome(decision, strategy, tries, max)
    ELSE StrategyOutcome(strategy, tries, max)

\* a result that is successful whatever the error list holds
CreateResultAlwaysSuccess(errs, done, total) ==
    [status |-> "COMPLETED", error |-> NoMessage, errors |-> <<>>,
     processed |-> done, total |-> total]

\* _create_result
CreateResult(errs, done, total) ==
    IF errs # <<>>
    THEN [status |-> "FAILED", error |-> <<"Failed to process", Len(errs), "parameter(s)">>,
          errors |-> errs, processed |-> done, total |-> total]
    ELSE [status |-> "COMPLETED", error |-> NoMessage, errors |-> <<>>,
          processed |-> done, total |-> total]

\* while retries <= self.max_retries and not success
RetryLoopContinues(tries, max, ok) == tries <= max /\ ~ok

\* the history entry of a parameter no attempt was made for yet
NoAttempt == [tries |-> 0, last |-> "none", hook |-> "None", decided |-> FALSE]

InitParam ==
    /\ registry = [t \in Tasks |-> <<>>]
    /\ task_order = <<>>
    /\ pc = "p_new"
    /\ raised = NoError
    /\ InitRun
    /\ InitIter
    /\ InitLim
    /\ InitExt
    /\ parameters \in ParamLists
    /\ error_strategy \in {"stop", "continue", "retry"}
    /\ max_retries \in 0..MaxRetries
    /\ overrides \in BOOLEAN
    /\ InitParamLocals

\* ParameterizedIterableTask.__init__
ParamTaskInit ==
    /\ pc = "p_new"
    /\ IF error_strategy = "retry" /\ max_retries <= 0
       THEN /\ raised' = RetryError
            /\ pc' = "raised"
       ELSE /\ pc' = "p_ready"
            /\ UNCHANGED raised
    /\ UNCHANGED <<registry, task_order, runVars, iterVars, limVars, paramVars>>
    /\ UNCHANGED extVars

\* execute: parameters = self.get_parameters(context); errors = []; processed = 0
ParamExecute ==
    /\ pc = "p_ready"
    /\ errors' = <<>>
    /\ processed' = 0
    /\ pc' = "p_loop"
    /\ UNCHANGED <<registry, task_order, raised, runVars, iterVars, limVars, parameters,
                   error_strategy, max_retries, overrides, p_idx, retries, success,
                   param_error, attempts, p_ret>>
    /\ UNCHANGED extVars

\* for param in parameters: the next parameter with fresh retries, success and
\* param_error, or the end of the list and the result
NextParameter ==
    /\ pc = "p_loop"
    /\ IF p_idx < Len(parameters)
       THEN /\ p_idx' = p_idx + 1
            /\ retries' = 0
            /\ success' = FALSE
            /\ param_error' = NoParamError
            /\ attempts' = Append(attempts, NoAttempt)
            /\ pc' = "p_attempt"
            /\ UNCHANGED p_ret
       ELSE /\ p_ret' = CreateResult(errors, processed, Len(parameters))
            /\ pc' = "p_done"
            /\ UNCHANGED <<p_idx, retries, success, param_error, attempts>>
    /\ UNCHANGED <<registry, task_order, raised, runVars, iterVars, limVars, parameters,
                   error_strategy, max_retries, overrides, errors, processed>>
    /\ UNCHANGED extVars

\* one turn of the while loop: the test of its condition and, if it holds, one
\* call of execute_for_parameter with everything the try statement does after it
AttemptParameter ==
    /\ pc = "p_attempt"
    /\ IF ~RetryLoopContinues(retries, max_retries, success)
       THEN /\ pc' = "p_loop"
            /\ UNCHANGED <<retries, success, param_error, errors, processed, attempts, p_ret>>
       ELSE \E out \in ParamOutcomes, decision \in HookDecisions(overrides) :
            LET param == parameters[p_idx]
                \* the try block ran into an exception: of the call, or of errors.remove
                removal == out = "ok" /\ param_error # NoParamError
                              /\ ~Contains(errors, param_error)
                failed == out # "ok" \/ removal
                perr == IF out # "ok" THEN <<param, out>> ELSE <<param, RemoveMsg>>
                errs == IF out # "ok" THEN ErrorsAfterFailure(errors, retries, perr)
                        ELSE IF param_error # NoParamError /\ ~removal
                        THEN RemoveFirst(errors, param_error)
                        ELSE errors
                done == IF out = "ok" THEN processed + 1 ELSE processed
                then == AfterFailure(decision, error_strategy, retries, max_retries)
            IN  /\ ~failed => decision = "None"              \* on_error is not called
                /\ success' = (out = "ok")
                /\ processed' = done
                /\ errors' = errs
                /\ param_error' = IF failed THEN perr ELSE NoParamError
                /\ attempts' = [attempts EXCEPT ![p_idx] =
                                   [tries |-> @.tries + 1,
                                    last |-> out,
                                    hook |-> decision,
                                    decided |-> @.decided \/ decision # "None"]]
                /\ IF ~failed
                   THEN pc' = "p_attempt" /\ UNCHANGED <<retries, p_ret>>
                   ELSE IF then = "stop"
                   THEN /\ p_ret' = CreateResult(errs, done, Len(parameters))
                        /\ pc' = "p_done"
                        /\ UNCHANGED retries
                   ELSE IF then = "retry"
                   THEN /\ retries' = retries + 1
                        /\ pc' = "p_attempt"
                        /\ UNCHANGED p_ret
                   ELSE /\ pc' = "p_loop"
                        /\ UNCHANGED <<retries, p_ret>>
    /\ UNCHANGED <<registry, task_order, raised, runVars, iterVars, limVars, parameters,
                   error_strategy, max_retries, overrides, p_idx>>
    /\ UNCHANGED extVars

NextParam ==
    \/ ParamTaskInit
    \/ ParamExecute
    \/ NextParameter
    \/ AttemptParameter

SpecParam == InitParam /\ [][NextParam]_vars

\* a task that keeps the on_error of the base class, which returns None
InitParamDefaultHook == InitParam /\ ~overrides

\* execute of such a task runs on: no step that can be taken is put off for ever
SpecParamFair == InitParamDefaultHook /\ [][NextParam]_vars /\ WF_vars(NextParam)

\* ---------------------------------------------------------------- ResumeIterator claims
\* the positions a..b in order (empty when a > b)
SeqFrom(a, b) == [k \in 1..(b - a + 1) |-> a + k - 1]

IsPrefix(s, t) == Len(s) <= Len(t) /\ \A k \in 1..Len(s) : s[k] = t[k]

\* the checkpoint the iterator found in the store when it was constructed
FoundCheckpoint == entry_store[IterTask]

HasLastId(c) == c.status # "absent" /\ c.last_processed_id # None

\* positions of the items whose extracted id is the checkpoint's last_processed_id
Matches == {p \in 1..Len(items) : HasLastId(FoundCheckpoint)
                                   /\ IdExtractor(items[p]) = FoundCheckpoint.last_processed_id}

\* the first pass over the iterator ran to the end of the list
FirstPassDone == pc = "exhausted" /\ passes = <<>>

\* C16 (as stated): the first full pass of a ResumeIterator yields the whole list when
\* the store holds no checkpoint, one without last_processed_id, or one whose id
\* matches no item, and yields exactly the items after the N-th for every N whose
\* item has the checkpoint's last_processed_id as its extracted id.
C16_ResumesAfterAnyMatch ==
    FirstPassDone =>
        /\ Matches = {} => yielded = SeqFrom(1, Len(items))
        /\ \A N \in Matches : yielded = SeqFrom(N + 1, Len(items))

\* C16 (amended): as above, but the pass yields the items after the FIRST item
\* whose extracted id is the checkpoint's last_processed_id.
C16_ResumesAfterFirstMatch ==
    FirstPassDone =>
        /\ Matches = {} => yielded = SeqFrom(1, Len(items))
        /\ \A N \in Matches :
              (\A q \in Matches : N <= q) => yielded = SeqFrom(N + 1, Len(items))

\* a checkpoint for the second of three items with distinct ids: the pass
\* yielded the third item only
C16_Witness ==
    /\ FirstPassDone
    /\ Len(items) = 3
    /\ Matches = {2}
    /\ yielded = <<3>>

\* C17: a ResumeIterator with save interval S > 0 run to the end of a list of
\* M >= 1 items leaves a checkpoint with processed_items = M and last_processed_id
\* equal to the id of the last item.
C17_FinalCheckpointCoversAllItems ==
    (pc = "exhausted" /\ Len(items) >= 1) =>
        /\ store[IterTask].status # "absent"
        /\ store[IterTask].processed_items = Len(items)
        /\ store[IterTask].last_processed_id = IdExtractor(items[Len(items)])

\* every pass made so far, the current one last
AllPasses ==
    IF pc \in {"iterating", "exhausted"}
    THEN Append(passes, [yielded |-> yielded, complete |-> pc = "exhausted"])
    ELSE passes

\* C20: every pass over one ResumeIterator starts right after the start index
\* computed at construction: a pass that reached the end yielded the same items
\* as the first pass, a pass that stopped early yielded a prefix of them,
\* whatever the iterator saved to the store in between.
C20_EveryPassFromConstructionStart ==
    LET full == SeqFrom(FindStartIndex(items, FoundCheckpoint) + 1, Len(items))
    IN  \A k \in 1..Len(AllPasses) :
           /\ IsPrefix(AllPasses[k].yielded, full)
           /\ AllPasses[k].complete => AllPasses[k].yielded = full
           /\ (AllPasses[k].complete /\ AllPasses[1].complete)
                 => AllPasses[k].yielded = AllPasses[1].yielded

\* a first pass that stopped early after a checkpoint was saved, then a second
\* pass that ran to the end, the store no longer holding what construction found
C20_Witness ==
    /\ pc = "exhausted"
    /\ Len(passes) = 1
    /\ ~passes[1].complete
    /\ Len(passes[1].yielded) >= 1
    /\ store[IterTask] # FoundCheckpoint
    /\ Len(yielded) >= 2

\* ---------------------------------------------------------------- run claims
\* the names that have an entry in a results map
KeysOf(res) == {n \in Names : res[n] # NoTaskResult}

\* C11: while the task at position idx is executed, context.results holds an
\* entry for exactly the names at the positions before idx, each the successful
\* TaskResult recorded for it; no step of a run removes an entry from the map.
C11_ContextHoldsEarlierResults ==
    /\ [](pc = "execute" =>
            /\ KeysOf(ctx_results) = {task_order[k] : k \in 1..(idx - 1)}
            /\ \A n \in KeysOf(ctx_results) :
                  Success(ctx_results[n]) /\ ctx_results[n] = results[n])
    /\ [][KeysOf(ctx_results) \subseteq KeysOf(ctx_results')]_vars

\* the third of three distinct tasks is executed with two results in the context
C11_Witness ==
    /\ pc = "execute"
    /\ idx = 3
    /\ NoRepeat(task_order)
    /\ Cardinality(KeysOf(ctx_results)) = 2

\* the positions of the entries of executed, in order
ExecutedSeq == [k \in 1..Len(executed) |-> executed[k][1]]


\* C12: tasks run one at a time in the caller's order: the positions whose code
\* was invoked so far are 1, 2, .. without a gap or a return to an earlier one,
\* and in the returned result completed_tasks followed by failed_tasks is a
\* prefix of task_order, failed_tasks has at most one name and the keys of
\* results are exactly those names.
C12_ExecutesInCallerOrder ==
    /\ \A k \in 1..Len(ExecutedSeq) : ExecutedSeq[k] <= idx
    /\ \A k, l \in 1..Len(ExecutedSeq) : k < l => ExecutedSeq[k] <= ExecutedSeq[l]
    /\ ExecutedPositions = 1..Cardinality(ExecutedPositions)
    /\ pc \in {"record", "finish", "returned"} => ExecutedPositions = 1..idx
    /\ Returned =>
          /\ IsPrefix(ret.completed_tasks \o ret.failed_tasks, task_order)
          /\ Len(ret.failed_tasks) <= 1
          /\ Range(ret.results_keys) = Range(ret.completed_tasks \o ret.failed_tasks)
          /\ KeysOf(ret.results) = Range(ret.results_keys)

\* a run over four positions that completed two tasks and failed at the third
C12_Witness ==
    /\ Returned
    /\ Len(task_order) = 4
    /\ Len(ret.completed_tasks) = 2
    /\ Len(ret.failed_tasks) = 1

\* C13: in a run, a task's stored status only moves from PENDING (no checkpoint)
\* to IN_PROGRESS and from there to COMPLETED or FAILED, and no name is started
\* or executed at two positions of the run.
C13_NeverRevisitsTask ==
    /\ [](\A k, l \in ExecutedPositions : k # l => task_order[k] # task_order[l])
    /\ [][\A n \in Names :
            \/ store'[n].status = store[n].status
            \/ store[n].status = "absent" /\ store'[n].status = "IN_PROGRESS"
            \/ store[n].status = "IN_PROGRESS" /\ store'[n].status \in {"COMPLETED", "FAILED"}]_vars

\* the error message _mark_task_failed stores for a failed result
StoredErrorOf(result) == IF result.error = NoMessage THEN UnknownError ELSE result.error

\* C14: after a run, every task in completed_tasks has a stored checkpoint with
\* status COMPLETED and both timestamps set, and the failed task has a stored
\* checkpoint with status FAILED, its error message and a completion timestamp.
C14_CheckpointsMatchResult ==
    Returned =>
        /\ \A n \in Range(ret.completed_tasks) :
              /\ store[n].status = "COMPLETED"
              /\ store[n].started_at # NoTime
              /\ store[n].completed_at # NoTime
        /\ \A n \in Range(ret.failed_tasks) :
              /\ store[n].status = "FAILED"
              /\ store[n].completed_at # NoTime
              /\ store[n].error_message = StoredErrorOf(ret.results[n])

\* ---------------------------------------------------------------- resume claims
\* C15: when a task is about to run and the store holds an IN_PROGRESS
\* checkpoint for it, the orchestrator writes nothing and the record stays as
\* it was; otherwise it stores a fresh IN_PROGRESS checkpoint (no
\* last_processed_id, no processed items) with a new start timestamp, and
\* touches no other task's record.
C15_StartCheckpointOnlyWhenNotInProgress ==
    [][(pc = "loop" /\ pc' = "execute") =>
          LET t == task_order[idx'] IN
          IF store[t].status = "IN_PROGRESS"
          THEN store' = store /\ store_log' = store_log
          ELSE /\ store'[t] = TaskProgress("IN_PROGRESS", clock, NoTime, NoMessage)
               /\ store'[t].started_at > store[t].started_at
               /\ \A n \in Names \ {t} : store'[n] = store[n]
               /\ store_log' = Append(store_log, <<"save_progress", t>>)]_vars

\* the item-iterating task is about to run over an IN_PROGRESS checkpoint with
\* a last_processed_id, and the store is as the run found it
C15_Witness ==
    /\ pc = "execute"
    /\ CurrentTask = IterTask
    /\ store[IterTask].status = "IN_PROGRESS"
    /\ store[IterTask].last_processed_id # None
    /\ store = entry_store
    /\ store_log = <<>>

\* the position a ResumeIterator checkpointed last in the earlier runs of the
\* lineage (0: none)
LastCheckpointed ==
    LET saved == {r \in 1..(Len(ckpts) - 1) : ckpts[r] > 0}
    IN  IF saved = {} THEN 0
        ELSE ckpts[CHOOSE r \in saved : \A q \in saved : q <= r]

\* the run is a resume run that follows a run in which the task's ResumeIterator
\* saved a checkpoint and the task then failed or was interrupted
ResumesAfterFailureOrInterrupt ==
    /\ Len(ckpts) >= 2
    /\ resume
    /\ LastCheckpointed > 0
    /\ entry_store[IterTask].status \in {"FAILED", "IN_PROGRESS"}

\* C18: in a resume run that follows a run in which the item-iterating task saved
\* ResumeIterator checkpoints and then failed or was interrupted, the iterator
\* yields no item at or before the last checkpointed one.
C18_ResumeNeverReyields ==
    ResumesAfterFailureOrInterrupt => \A k \in 1..Len(yielded) : yielded[k] > LastCheckpointed

\* the item-iterating task's execute was invoked in this run
IterTaskExecuted ==
    \E k \in 1..Len(executed) :
        executed[k][2] = "execute" /\ task_order[executed[k][1]] = IterTask

\* C19: a run with resume=True over a store that holds a checkpoint whose
\* last_processed_id is the id of the k-th item, in which no task code raises
\* and the store does not fail: the task processes exactly the items after the
\* k-th, in order, and the run ends COMPLETED.
C19_ResumeProcessesItemsAfterCheckpoint ==
    (/\ Returned
     /\ Len(ckpts) = 1
     /\ resume
     /\ IterTaskExecuted
     /\ task_exc = NoMessage
     /\ ~store_fault) =>
        \A N \in Matches :
            /\ yielded = SeqFrom(N + 1, Len(items))
            /\ ret.status = "COMPLETED"

\* C21: a step of the iteration saves a checkpoint exactly when the item it
\* yields is the N-th, 2N-th, .. of the pass (N = save_interval); the checkpoint
\* is IN_PROGRESS with the yielded item's id, its position in the list as
\* processed_items and the list length as total_items, so that
\* 0 < processed_items <= total_items; no other step writes to the store.
C21_CheckpointEveryNthItem ==
    [][IF pc = "iterating" /\ Len(yielded') = Len(yielded) + 1
       THEN LET pos == yielded'[Len(yielded')] IN
            IF Len(yielded') % save_interval = 0
            THEN /\ store_log' = Append(store_log, <<"save_progress", IterTask>>)
                 /\ store' = [store EXCEPT ![IterTask] = store'[IterTask]]
                 /\ store'[IterTask].status = "IN_PROGRESS"
                 /\ store'[IterTask].last_processed_id = IdExtractor(items[pos])
                 /\ store'[IterTask].processed_items = pos
                 /\ store'[IterTask].total_items = Len(items)
                 /\ 0 < store'[IterTask].processed_items
                 /\ store'[IterTask].processed_items <= store'[IterTask].total_items
            ELSE store' = store /\ store_log' = store_log
       ELSE store' = store /\ store_log' = store_log]_vars

\* an iterator that started after the first item has saved at the second item
\* it yielded, the third of the list
C21_Witness ==
    /\ pc = "iterating"
    /\ it_start = 1
    /\ save_interval = 2
    /\ yielded = <<2, 3>>
    /\ store[IterTask].processed_items = 3
    /\ store_log = <<<<"save_progress", IterTask>>>>

\* ---------------------------------------------------------------- LimitingIterator claims
\* min(K, L), L being the length of the source
LimitedLen == IF src_len = Unbounded \/ lim_limit <= src_len THEN lim_limit ELSE src_len

\* C22: the first pass over a LimitingIterator with limit K on a fresh source of
\* length L (or an endless one) yields the first min(K, L) items of the source in
\* order and then signals exhaustion; next() calls that follow without a new
\* __iter__ signal exhaustion again and yield nothing.
C22_YieldsFirstMinItems ==
    /\ [](passes = <<>> /\ pc \in {"lim_iterating", "lim_stopped"} =>
             /\ IsPrefix(yielded, SeqFrom(1, LimitedLen))
             /\ pc = "lim_stopped" => yielded = SeqFrom(1, LimitedLen))
    /\ [][pc = "lim_stopped" /\ pc' = "lim_stopped" =>
             yielded' = yielded /\ lim_stops' = lim_stops + 1]_vars

\* an endless source limited to two items, and two next() calls answered by
\* StopIteration
C22_Witness ==
    /\ pc = "lim_stopped"
    /\ passes = <<>>
    /\ src_len = Unbounded
    /\ lim_limit = 2
    /\ yielded = <<1, 2>>
    /\ lim_stops = 2

\* every pass made over the LimitingIterator so far, the current one last
AllLimPasses ==
    IF pc \in {"lim_iterating", "lim_stopped"}
    THEN Append(passes, [yielded |-> yielded, complete |-> pc = "lim_stopped"])
    ELSE passes

\* C23: a pass over a LimitingIterator that was iterated before starts with the
\* counter at zero and yields the same items as the first pass.
C23_SecondPassReplays ==
    /\ pc = "lim_iterating" /\ yielded = <<>> => lim_count = 0
    /\ \A k \in 1..Len(AllLimPasses) :
          (AllLimPasses[k].complete /\ AllLimPasses[1].complete)
             => AllLimPasses[k].yielded = AllLimPasses[1].yielded

\* ---------------------------------------------------------------- ParameterizedIterableTask claims
\* execute has returned its result
ParamDone == pc = "p_done"

\* on_error never returned a definite decision
NoDecision == \A k \in 1..Len(attempts) : ~attempts[k].decided

\* the last call of execute_for_parameter for position k raised
FailedAt(k) == attempts[k].last \in Msgs

FailedPositions == {k \in 1..Len(attempts) : FailedAt(k)}

SucceededPositions == {k \in 1..Len(attempts) : attempts[k].last = "ok"}

RECURSIVE FailedParamsFrom(_)
\* the parameters of the failed positions k.. in list order
FailedParamsFrom(k) ==
    IF k > Len(attempts) THEN <<>>
    ELSE IF FailedAt(k) THEN <<parameters[k]>> \o FailedParamsFrom(k + 1)
    ELSE FailedParamsFrom(k + 1)

RECURSIVE TriesFrom(_)
\* the number of calls of execute_for_parameter for the positions k..
TriesFrom(k) == IF k > Len(attempts) THEN 0 ELSE attempts[k].tries + TriesFrom(k + 1)

\* the parameters the entries of an error list name
ErrorParams(errs) == [i \in 1..Len(errs) |-> errs[i][1]]

\* on_error is called in this step
HookCalled ==
    /\ pc = "p_attempt"
    /\ attempts'[p_idx].tries = attempts[p_idx].tries + 1
    /\ param_error' # NoParamError

\* this step goes on to the next parameter of the list
GoesToNext == pc' = "p_loop" /\ p_idx' = p_idx /\ p_ret' = p_ret

\* this step goes on to another attempt for the same parameter
GoesToRetry == pc' = "p_attempt" /\ p_idx' = p_idx /\ retries' = retries + 1 /\ p_ret' = p_ret

\* this step returns the partial results
StopsWithPartial ==
    /\ pc' = "p_done"
    /\ p_ret'.status = "FAILED"
    /\ p_ret'.processed = processed'
    /\ p_ret'.total = Len(parameters)
    /\ p_ret'.errors = errors'
    /\ attempts'[p_idx].tries = attempts[p_idx].tries + 1
    /\ Len(attempts') = p_idx

\* C24: under policy stop, with no decision of the hook, when the first failing
\* parameter is at position j of n, the parameters 1..j are attempted once each
\* and no other, and the result is FAILED with processed = j - 1, total = n and
\* an error list of the one entry of parameter j.
C24_StopAtFirstFailure ==
    (ParamDone /\ error_strategy = "stop" /\ NoDecision /\ FailedPositions # {})
       => LET j == CHOOSE k \in FailedPositions : \A m \in FailedPositions : k <= m
          IN  /\ Len(attempts) = j
              /\ \A k \in 1..j : attempts[k].tries = 1
              /\ p_ret.status = "FAILED"
              /\ p_ret.processed = j - 1
              /\ p_ret.total = Len(parameters)
              /\ Len(p_ret.errors) = 1
              /\ p_ret.errors[1][1] = parameters[j]

C24_Witness ==
    /\ ParamDone
    /\ error_strategy = "stop"
    /\ NoDecision
    /\ Len(parameters) = 2
    /\ Len(attempts) = 2
    /\ FailedAt(2)
    /\ p_ret.processed = 1

C26_RetrySuccessClearsError ==
    (ParamDone /\ error_strategy = "retry")
       => /\ p_ret.processed = Cardinality(SucceededPositions)
          /\ \A k \in SucceededPositions :
                (\E i \in 1..Len(p_ret.errors) : p_ret.errors[i][1] = parameters[k])
                   => \E m \in FailedPositions : parameters[m] = parameters[k]
          /\ FailedPositions = {} => p_ret.status = "COMPLETED"

C28_HookOverridesPolicy ==
    [][HookCalled
         => LET decision == attempts'[p_idx].hook
                retrying == error_strategy = "retry" /\ retries < max_retries
            IN  /\ decision = "False" => StopsWithPartial
                /\ decision = "True" => IF retrying THEN GoesToRetry ELSE GoesToNext
                /\ decision = "None"
                      => IF error_strategy = "stop" THEN StopsWithPartial
                         ELSE IF error_strategy = "continue" THEN GoesToNext
                         ELSE IF retrying THEN GoesToRetry
                         ELSE GoesToNext]_vars

C28_Witness ==
    /\ pc = "p_attempt"
    /\ error_strategy = "stop"
    /\ p_idx = 2
    /\ attempts[1].hook = "True"
    /\ FailedAt(1)

\* C29: the result is successful iff no parameter ultimately failed, whatever
\* the policy, the hook and the failures; a successful result has
\* processed = total.
C29_SuccessIffNoFailure ==
    ParamDone
       => /\ (p_ret.status = "COMPLETED") <=> (FailedPositions = {})
          /\ p_ret.status = "COMPLETED" => p_ret.processed = p_ret.total

\* C30: the error list holds, for each parameter that ultimately failed, exactly
\* one entry, and the entry carries the message of the parameter's last failed
\* attempt.
C30_ErrorCarriesFinalMessage ==
    ParamDone
       => \A k \in FailedPositions :
             /\ Cardinality({i \in 1..Len(p_ret.errors) : p_ret.errors[i][1] = parameters[k]})
                   = Cardinality({m \in FailedPositions : parameters[m] = parameters[k]})
             /\ \E i \in 1..Len(p_ret.errors) :
                   p_ret.errors[i] = <<parameters[k], attempts[k].last>>

\* ---------------------------------------------------------------- checkpoint claims
\* the task at idx is between its start and the step that records its result
TaskRunning == pc \in {"execute", "task_execute", "iterate", "record"}

\* C32: the start timestamp the orchestrator recorded for a task stays in the
\* task's checkpoint while the task runs and when it is marked COMPLETED: no
\* checkpoint written during the task, the periodic ones of a ResumeIterator
\* included, loses or replaces it.
C32_StartTimestampKept ==
    [][(/\ TaskRunning
        /\ idx' = idx
        /\ pc' \in {"task_execute", "iterate", "record", "loop"}
        /\ store[CurrentTask].started_at # NoTime)
          => store'[CurrentTask].started_at = store[CurrentTask].started_at]_vars

\* the number of times execute of the task at position k was invoked
ExecCount(k) ==
    Cardinality({j \in 1..Len(executed) : executed[j] = <<k, "execute">>})

\* the positions whose task the orchestrator started and whose invocation is over
InvokedPositions ==
    {k \in 1..idx : k < idx \/ pc \in {"record", "loop", "finish", "returned"}}

StartedNames == {task_order[k] : k \in 1..idx}

\* C35: a run writes checkpoints only for the tasks whose turn has come: the
\* records of the tasks after the failed one and of the tasks outside task_order
\* are those the run found, and a run that validate rejects leaves the whole
\* store as it found it.
C35_WritesOnlyStartedTasks ==
    /\ \A n \in Names \ StartedNames : store[n] = entry_store[n]
    /\ (pc = "raised" /\ raised.type = "DependencyError" /\ idx = 0) => store = entry_store

\* the plain task failed and the stored checkpoint of the task after it is the
\* one the run found
C35_Witness ==
    /\ Returned
    /\ task_order = <<"A", "B">>
    /\ idx = 1
    /\ store["A"].status = "FAILED"
    /\ entry_store["B"].status = "COMPLETED"
    /\ store["B"] = entry_store["B"]

\* C37: every run executes every task whose turn comes, whatever the store
\* holds for it and with or without resume: over a COMPLETED, FAILED or absent
\* checkpoint the record is first replaced by a fresh IN_PROGRESS one, and the
\* task code is invoked next; a run that returns COMPLETED has invoked every
\* task of the order.
C37_RerunExecutesEveryTask ==
    /\ [][(pc = "loop" /\ idx' = idx + 1 /\ raised' = NoError)
            => LET t == task_order[idx'] IN
               /\ pc' = "execute"
               /\ store[t].status \in {"COMPLETED", "FAILED", "absent"}
                     => store'[t] = TaskProgress("IN_PROGRESS", clock, NoTime, NoMessage)]_vars
    /\ [][pc = "execute"
            => /\ Len(executed') = Len(executed) + 1
               /\ executed'[Len(executed')][1] = idx]_vars
    /\ []((Returned /\ ret.status = "COMPLETED")
            => \A k \in 1..Len(task_order) : \E j \in 1..Len(executed) : executed[j][1] = k)

\* a run with resume over a COMPLETED checkpoint has reset it and is about to
\* invoke the task
C37_Witness ==
    /\ pc = "execute"
    /\ resume
    /\ CurrentTask = IterTask
    /\ entry_store[IterTask].status = "COMPLETED"
    /\ store[IterTask] = TaskProgress("IN_PROGRESS", clock - 1, NoTime, NoMessage)

\* ---------------------------------------------------------------- validator checks compared
\* C38: for a duplicate-free order of registered tasks, a cycle in the graph
\* restricted to the order implies that the order check (every dependency
\* present at a strictly earlier position) rejects the order too: the cycle check
\* rejects no order the existence and order checks accept.
C38_CycleImpliesOrderRejected ==
    (/\ NoRepeat(task_order)
     /\ CheckAllTasksExist(task_order, registry) = NoError
     /\ CheckCyclicDependencies(task_order, registry) # NoError)
        => CheckDependenciesInOrder(task_order, registry) # NoError

\* validate has rejected a duplicate-free order of registered tasks for a cycle
\* of two tasks
C38_Witness ==
    /\ pc = "raised"
    /\ NoRepeat(task_order)
    /\ raised.kind = "cyclic"
    /\ Len(raised.names) = 3
    /\ CheckDependenciesInOrder(task_order, registry).kind = "wrong_order"

\* ---------------------------------------------------------------- result counters
\* C36: in every result of ParameterizedIterableTask.execute, processed plus
\* the number of error entries is at most total, and no position is counted as
\* processed and as failed.
C36_ProcessedPlusErrorsWithinTotal ==
    ParamDone
       => /\ p_ret.processed + Len(p_ret.errors) <= p_ret.total
          /\ Len(p_ret.errors) <= Cardinality({k \in 1..Len(attempts) : attempts[k].last # "ok"})

\* ---------------------------------------------------------------- limited resume claims
\* C39: a LimitingIterator with limit K takes at most K items from its source in
\* a pass: a call after the K-th yielded item signals exhaustion and does not ask
\* the source, so the position of a wrapped ResumeIterator stays at the last
\* yielded item and no checkpoint names a later item.
C39_PullsAtMostLimit ==
    /\ [](Len(yielded) <= lim_limit)
    /\ [](yielded # <<>> => it_cur = yielded[Len(yielded)])
    /\ [][(pc \in {"lr_iterating", "lr_stopped"} /\ Len(yielded) = lim_limit
             /\ passes' = passes)
            => /\ pc' = "lr_stopped"
               /\ lim_stops' = lim_stops + 1
               /\ yielded' = yielded
               /\ it_cur' = it_cur
               /\ src_pos' = src_pos
               /\ store' = store
               /\ store_log' = store_log]_vars
    /\ [][store' # store
            => /\ Len(yielded') = Len(yielded) + 1
               /\ store'[IterTask].processed_items = yielded'[Len(yielded')]
               /\ store'[IterTask].last_processed_id = IdExtractor(items[it_cur'])]_vars

\* a pass with limit 2 over three items has stopped after the second item, which
\* the last checkpoint names
C39_Witness ==
    /\ pc = "lr_stopped"
    /\ lim_limit = 2
    /\ Len(items) = 3
    /\ save_interval = 1
    /\ yielded = <<1, 2>>
    /\ it_cur = 2
    /\ store[IterTask].processed_items = 2

\* ---------------------------------------------------------------- C31
\* the first task register was called with under each name
FirstRegistered(task_name) ==
    reg_calls[CHOOSE k \in 1..Len(reg_calls) :
                 /\ reg_calls[k].name = task_name
                 /\ \A j \in 1..(k - 1) : reg_calls[j].name # task_name]

RegisteredNames == {reg_calls[k].name : k \in 1..Len(reg_calls)}

\* the names of reg_calls, each at its first occurrence
RECURSIVE FirstOccurrences(_)
FirstOccurrences(calls) ==
    IF calls = <<>> THEN <<>>
    ELSE LET front == FirstOccurrences(SubSeq(calls, 1, Len(calls) - 1))
             last == calls[Len(calls)].name
         IN IF \E k \in 1..Len(front) : front[k] = last THEN front ELSE Append(front, last)

\* C31: register under a name already present raises the uniqueness error and
\* leaves the registry as it was; every name maps to the first task registered
\* under it; get of an absent name raises the not-found error and get of a
\* present name returns its task; get_all lists the tasks in insertion order.
C31_RegistryKeepsFirstTask ==
    /\ [](/\ DOMAIN registry = RegisteredNames
          /\ \A n \in DOMAIN registry : registry[n] = FirstRegistered(n).depends_on
          /\ reg_order = FirstOccurrences(reg_calls)
          /\ reg_out.op = "get" =>
                IF reg_out.name \in DOMAIN registry
                THEN raised = NoError /\ reg_out.value = FirstRegistered(reg_out.name)
                ELSE raised = NotFoundError(reg_out.name)
          /\ reg_out.op = "get_all" =>
                /\ raised = NoError
                /\ Len(reg_out.value) = Len(reg_order)
                /\ \A k \in 1..Len(reg_order) :
                      reg_out.value[k] = FirstRegistered(reg_order[k]))
    /\ [][\A n \in DOMAIN registry :
            (reg_calls' # reg_calls /\ reg_calls'[Len(reg_calls')].name = n)
               => /\ raised' = DuplicateError(n)
                  /\ registry' = registry
                  /\ reg_order' = reg_order]_vars

\* a second task was offered under a taken name and refused; the first one stays
C31_Witness ==
    /\ Len(reg_calls) = 3
    /\ reg_calls[1].name = "B" /\ reg_calls[2].name = "A" /\ reg_calls[3].name = "B"
    /\ reg_calls[3] # reg_calls[1]
    /\ raised = DuplicateError("B")
    /\ reg_order = <<"B", "A">>
    /\ registry["B"] = reg_calls[1].depends_on

\* ---------------------------------------------------------------- C33
\* the positions a resumed pass leaves out: those up to its start index
SkippedOnResume == IF it_start = NoIndex THEN {} ELSE 1..it_start

\* C33: a checkpoint of the ResumeIterator names an item only once
\* execute_for_item has returned for it, and a resumed run leaves out no item
\* that an earlier run of the lineage checkpointed without having handled it.
C33_CheckpointAfterProcessing ==
    /\ \A r \in 1..Len(ckpts) : ckpts[r] > 0 => ckpts[r] \in handled
    /\ \A r \in 1..(Len(ckpts) - 1) :
          (ckpts[r] > 0 /\ ckpts[r] \in SkippedOnResume) => ckpts[r] \in handled

\* ---------------------------------------------------------------- C40
SecondRunEnded == first.taken /\ pc \in {"returned", "raised"}

\* C40: two runs of execute that differ only in mode execute the same tasks
\* and items, write the same checkpoints and return the same status, results,
\* completed_tasks and failed_tasks (or raise the same error); of what they
\* return only the metadata differs, in its mode entry.
C40_ModeIsInformational ==
    SecondRunEnded =>
        /\ mode # first.mode
        /\ executed = first.executed
        /\ yielded = first.yielded
        /\ store = first.store
        /\ store_log = first.store_log
        /\ raised = first.raised
        /\ ret.status = first.ret.status
        /\ ret.results = first.ret.results
        /\ ret.results_keys = first.ret.results_keys
        /\ ret.completed_tasks = first.ret.completed_tasks
        /\ ret.failed_tasks = first.ret.failed_tasks
        /\ pc = "returned" =>
              /\ ret.metadata = [mode |-> mode, resume |-> resume]
              /\ first.ret.metadata = [mode |-> first.mode, resume |-> resume]

\* mode="resume" without the resume flag over a store that names a processed
\* item: like the first run, the second one goes through all the items
C40_Witness ==
    /\ SecondRunEnded
    /\ pc = "returned"
    /\ first.mode = "run" /\ mode = "resume" /\ ~resume
    /\ task_order = <<"A", "B">>
    /\ entry_store[IterTask].status = "IN_PROGRESS"
    /\ entry_store[IterTask].last_processed_id = "i1"
    /\ Len(items) = 3 /\ items[1].id = "i1"
    /\ yielded = <<1, 2, 3>>
    /\ ret.status = "COMPLETED"
====
